---- MODULE Spec2Model ----
(***************************************************************************)
(* Model of the fake IMAP authority of protonmail-client                   *)
(* (tests/fake_imap): the shared Mailbox, the per-connection selected      *)
(* folder kept by handle_connection, and the command handlers              *)
(* (SELECT, UID SEARCH, UID FETCH, UID STORE, UID COPY, EXPUNGE).          *)
(*                                                                         *)
(* One action is one command handled on one connection.  The write         *)
(* handlers mutate the mailbox inside one lock span; the existence check   *)
(* in the preceding lock span only reads the folder list, which no         *)
(* handler changes, so the handler is taken as one step.  `last` is the    *)
(* command line the handler was given and `resp` the lines it wrote; the   *)
(* client reads a response off the wire before the next command is sent.   *)
(*                                                                         *)
(* The handlers are those of handlers/*.rs; the command loop of server.rs  *)
(* keeps selected_folder and hands it to them.  server.rs also carries     *)
(* inlined SELECT, UID SEARCH and UID FETCH handlers: its SELECT returns   *)
(* the same selection and EXISTS count, its FETCH writes the same literal, *)
(* its SEARCH ignores date keys, and it routes no UID STORE, UID COPY or   *)
(* EXPUNGE.                                                                *)
(*                                                                         *)
(* pc is the position of each connection task in handle_connection         *)
(* (greeting, STARTTLS line, TLS handshake, command loop, returned) and,   *)
(* in SpecLock, inside a write handler taken step by step at the mailbox   *)
(* mutex; lock is the holder of that mutex and local the task's locals.    *)
(* client is a ProtonClient (src/client.rs, src/connection.rs) running one *)
(* method at a time over connection 1: each of its actions is one command  *)
(* sent through the handlers and its response read.                        *)
(***************************************************************************)
EXTENDS Integers, Sequences, FiniteSets, TLC

VARIABLES mailbox, selected, last, resp, pc, lock, local, client

vars == <<mailbox, selected, last, resp, pc, lock, local, client>>

\* the state no command handler of the command loop touches
aux == <<lock, local, client>>

(***************************************************************************)
(* Bounds                                                                  *)
(***************************************************************************)
\* UIDs of the messages the mailbox is built with are 1..MaxUid
MaxUid == 2
\* Spec: the mailbox never holds more than MaxMsgs messages
MaxMsgs == 3
\* SpecCopy: the mailbox never holds more than MaxCopyMsgs messages
MaxCopyMsgs == 4
\* SpecExpunge: the folder is built with at most MaxLen messages
MaxLen == 3
\* SpecClient: the mailbox never holds more than MaxClientMsgs messages
MaxClientMsgs == 4
\* SpecFetch: INBOX is built with at most MaxFetch messages
MaxFetch == 3
\* number of concurrently served connections
NumConns == 2
\* calendar days are 0..MaxDay; day 0 is the earliest possible date
MaxDay == 2

Conns == 1..NumConns
Uids == 1..MaxUid

\* Email::uid is a u32; the model scales the width to UidBits bits, so
\* that U32Max stands for 2^32 - 1
UidBits == 4
U32Max == 2^UidBits - 1
Days == 0..MaxDay

(***************************************************************************)
(* Raw payloads.  A payload is a sequence of byte runs; every run is a     *)
(* record [t, v] with a fixed byte length.  The run "rfc2822" stands for   *)
(* an RFC 2822 timestamp whose calendar date is day v.                     *)
(***************************************************************************)
Tok(t, v) == [t |-> t, v |-> v]

CRLF == Tok("CRLF", 0)
SP == Tok("SP", 0)
DateHdr == Tok("Date:", 0)
LowerDateHdr == Tok("date:", 0)
Junk == Tok("junk", 0)
OtherHdr == Tok("X:y", 0)
BodyTxt == Tok("Body", 0)
CloseParen == Tok(")", 0)
BadByte == Tok("0xFF", 0)
Stamp(d) == Tok("rfc2822", d)

\* byte length of one run
TokLen(tok) ==
  CASE tok.t = "CRLF" -> 2
    [] tok.t = "SP" -> 1
    [] tok.t = "Date:" -> 5
    [] tok.t = "date:" -> 5
    [] tok.t = "junk" -> 4
    [] tok.t = "X:y" -> 3
    [] tok.t = "Body" -> 4
    [] tok.t = ")" -> 1
    [] tok.t = "0xFF" -> 1
    [] tok.t = "rfc2822" -> 31

\* Vec<u8>::len
RECURSIVE ByteLen(_)
ByteLen(raw) ==
  IF raw = <<>> THEN 0 ELSE TokLen(Head(raw)) + ByteLen(Tail(raw))

\* make_raw_email: no Date header
RawNoDate == <<OtherHdr, CRLF, CRLF, BodyTxt>>
\* make_dated_email
RawDated(d) == <<OtherHdr, CRLF, DateHdr, SP, Stamp(d), CRLF, CRLF, BodyTxt>>
\* a Date header whose value does not parse
RawBadDate == <<DateHdr, SP, Junk, CRLF, CRLF, BodyTxt>>
\* a Date header that does not parse followed by one that would
RawBadThenGood == <<DateHdr, SP, Junk, CRLF, DateHdr, SP, Stamp(1), CRLF>>
\* lower-case header name
RawLowerDate == <<LowerDateHdr, SP, Stamp(1), CRLF, CRLF, BodyTxt>>
\* indented header line, padded value
RawPadded == <<SP, DateHdr, SP, SP, Stamp(1), SP, CRLF, BodyTxt>>
\* payload that is not UTF-8
RawNotUtf8 == <<DateHdr, SP, Stamp(1), CRLF, BadByte>>
\* payload holding CRLF and ')' bytes
RawTricky == <<CloseParen, CRLF, CloseParen, CRLF>>
RawEmpty == <<>>

AllRaws ==
  {RawNoDate, RawBadDate, RawBadThenGood, RawLowerDate, RawPadded,
   RawNotUtf8, RawTricky, RawEmpty} \cup {RawDated(d) : d \in Days}

\* the payload the mailbox builder gives the message with UID uid
RawOfUid(uid) == IF uid = 1 THEN RawDated(1) ELSE RawNoDate

(***************************************************************************)
(* Mailbox data model (mailbox.rs)                                         *)
(***************************************************************************)
TestEmail(uid, seen, deleted, raw) ==
  [uid |-> uid, seen |-> seen, deleted |-> deleted, raw |-> raw]

Folder(name, emails) == [name |-> name, emails |-> emails]

\* folder names a client may send
Names == {"INBOX", "Archive", "NoSuch"}

\* str::to_ascii_uppercase on the names in use
Upper(name) ==
  CASE name = "INBOX" -> "INBOX"
    [] name = "inbox" -> "INBOX"
    [] name = "Inbox" -> "INBOX"
    [] name = "Archive" -> "ARCHIVE"
    [] name = "archive" -> "ARCHIVE"
    [] name = "NoSuch" -> "NOSUCH"
    [] OTHER -> name

eq_ignore_ascii_case(a, b) == Upper(a) = Upper(b)

\* fault: every name is matched by exact equality
FolderMatchesExact(f, name) == f.name = name

\* the closure of Mailbox::get_folder / get_folder_mut
FolderMatches(f, name) ==
  IF eq_ignore_ascii_case(name, "INBOX")
  THEN eq_ignore_ascii_case(f.name, "INBOX")
  ELSE f.name = name

\* Mailbox::get_folder: index of the first matching folder, 0 for None
get_folder(mb, name) ==
  IF \E i \in 1..Len(mb) : FolderMatches(mb[i], name)
  THEN CHOOSE i \in 1..Len(mb) :
         /\ FolderMatches(mb[i], name)
         /\ \A j \in 1..(i - 1) : ~FolderMatches(mb[j], name)
  ELSE 0

\* Option<String> of handle_connection's selected_folder
None == [some |-> FALSE, name |-> ""]
Some(name) == [some |-> TRUE, name |-> name]

(***************************************************************************)
(* Response lines                                                          *)
(***************************************************************************)
Line0 ==
  [tag |-> "*", kind |-> "", n |-> 0, uid |-> 0, lit |-> 0, text |-> "",
   uids |-> <<>>, flags |-> <<>>, bytes |-> <<>>]

\* "<tag> OK|NO|BAD <text>\r\n"
Tagged(tag, status, text) ==
  [Line0 EXCEPT !.tag = tag, !.kind = status, !.text = text]

\* "* <n> <kind>\r\n" and "* OK [<kind> <n>]\r\n"
Untagged(kind, n) == [Line0 EXCEPT !.kind = kind, !.n = n]

\* the response ends with the command's tagged OK
EndsOk(lines, tag) ==
  /\ lines # <<>>
  /\ lines[Len(lines)].tag = tag
  /\ lines[Len(lines)].kind = "OK"

\* the UIDs of the "* SEARCH" line of a response
SearchUids(lines) == {lines[1].uids[i] : i \in 1..Len(lines[1].uids)}

\* the tag tokens the client of connection c puts on its command lines
Tags(c) == IF c = 1 THEN {"A1"} ELSE {"B2"}

(***************************************************************************)
(* Commands                                                                *)
(***************************************************************************)
\* a command line as handed to its handler: connection, tag, keyword,
\* arguments, and the connection's selected folder when the line was read
Cmd0 ==
  [conn |-> 0, tag |-> "", cmd |-> "", sel |-> None, name |-> "",
   idset |-> <<>>, kind |-> "", flags |-> {}, silent |-> FALSE,
   keys |-> <<>>]

Cmd(c, tag, keyword) ==
  [Cmd0 EXCEPT !.conn = c, !.tag = tag, !.cmd = keyword, !.sel = selected[c]]

\* the locals of one connection task: whether its stream is the TLS
\* stream, the command its handler is working on, the outcome of the
\* existence check, the lines the handler has yet to write, the items the
\* loop inside the lock span has yet to go through, and the mailbox as the
\* handler found it when it took the lock
Local0 ==
  [tls |-> FALSE, cmd |-> Cmd0, exists |-> FALSE, lines |-> <<>>,
   work |-> <<>>, snap |-> <<>>]

\* a ProtonClient on which no method is running: the access mode of its
\* type, the method and its arguments, the position in the method, the
\* stream of the method's connection ("tcp" until the TLS handshake is
\* through), the keywords of the commands sent on it and the status of the
\* last tagged response, the UIDs still to be worked on, and what the
\* method returned
Client0 ==
  [mode |-> "ReadOnly", op |-> "", step |-> "idle", folder |-> "", to |-> "",
   uid |-> 0, n |-> 0, keys |-> <<>>, flag |-> "", stream |-> "none",
   sent |-> <<>>, status |-> "", uids |-> <<>>, emails |-> <<>>, names |-> <<>>, result |-> ""]

\* no command is being answered
Idle == last = Cmd0 /\ resp = <<>>

\* fault: a missing selection is answered NO
NoFolderSelectedNo(tag) == <<Tagged(tag, "NO", "No folder selected")>>

NoFolderSelected(tag) == <<Tagged(tag, "BAD", "No folder selected")>>

FolderNotFound(tag) == <<Tagged(tag, "BAD", "Folder not found")>>

(***************************************************************************)
(* SELECT (handlers/select.rs, dispatched by handle_connection)            *)
(***************************************************************************)
\* fault: EXISTS counts only the messages not marked deleted
ExistsCountUndeleted(emails) ==
  Cardinality({i \in 1..Len(emails) : ~emails[i].deleted})

\* folder.emails.len() of the EXISTS line
ExistsCount(emails) == Len(emails)

\* a + b on u32 where the build does not check for overflow
wrapping_add(a, b) == (a + b) % (U32Max + 1)

\* .iter().map(|e| e.uid).max()
MaxUidOf(emails) ==
  CHOOSE m \in {emails[i].uid : i \in 1..Len(emails)} :
    \A i \in 1..Len(emails) : emails[i].uid <= m

\* `max + 1` overflows u32: a build with overflow checks panics there
UidNextOverflows(folder_name, mb) ==
  LET fi == get_folder(mb, folder_name) IN
  /\ fi # 0
  /\ mb[fi].emails # <<>>
  /\ MaxUidOf(mb[fi].emails) = U32Max

\* the lines handle_select has written when `max + 1` panics
SelectLinesPanic(emails) ==
  <<Untagged("FLAGS", 0),
    Untagged("EXISTS", Len(emails)),
    Untagged("RECENT", 0),
    Untagged("UIDVALIDITY", 1)>>

\* the lines handle_select writes
SelectLines(tag, folder_name, mb) ==
  LET fi == get_folder(mb, folder_name) IN
  IF fi # 0
  THEN LET emails == mb[fi].emails
           uidnext ==
             IF emails = <<>> THEN 1
             ELSE wrapping_add(MaxUidOf(emails), 1)
           unseen == {i \in 1..Len(emails) : ~emails[i].seen}
           pos == CHOOSE i \in unseen : \A j \in unseen : i <= j
       IN  <<Untagged("FLAGS", 0),
             Untagged("EXISTS", ExistsCount(emails)),
             Untagged("RECENT", 0),
             Untagged("UIDVALIDITY", 1),
             Untagged("UIDNEXT", uidnext),
             Untagged("PERMANENTFLAGS", 0)>>
           \o (IF unseen # {} THEN <<Untagged("UNSEEN", pos)>> ELSE <<>>)
           \o <<Tagged(tag, "OK", "[READ-WRITE] SELECT completed")>>
  ELSE <<Tagged(tag, "NO", "Folder not found")>>

\* fault: the requested name is returned although the folder is missing
handle_select_unchecked(folder_name, mb) == Some(folder_name)

\* the value handle_select returns
handle_select(folder_name, mb) ==
  IF get_folder(mb, folder_name) # 0 THEN Some(folder_name) ELSE None

\* fault: the selected folder is one value shared by every connection
SetSelectedShared(sel, c, folder) == [d \in DOMAIN sel |-> folder]

\* selected_folder is a local of the connection's task: the assignment
\* reaches the task's own value only
SetSelected(sel, c, folder) == [sel EXCEPT ![c] = folder]

\* handle_connection: selected_folder = handle_select(...)
\* overflow_checks is the build's setting: on in the dev and test profiles,
\* off in the release profile
Select(c, FolderNames) ==
  \E tag \in Tags(c), name \in FolderNames, overflow_checks \in BOOLEAN :
    LET panics == overflow_checks /\ UidNextOverflows(name, mailbox) IN
    /\ Idle
    /\ pc[c] = "Loop"
    /\ selected' = IF panics THEN selected
                   ELSE SetSelected(selected, c, handle_select(name, mailbox))
    /\ resp' = IF panics
               THEN SelectLinesPanic(mailbox[get_folder(mailbox, name)].emails)
               ELSE SelectLines(tag, name, mailbox)
    /\ last' = [Cmd(c, tag, "SELECT") EXCEPT !.name = name]
    /\ pc' = IF panics THEN [pc EXCEPT ![c] = "Closed"] ELSE pc
    /\ UNCHANGED mailbox
    /\ UNCHANGED aux

(***************************************************************************)
(* UID SEARCH (handlers/uid_search.rs)                                     *)
(***************************************************************************)
\* Option<NaiveDate>
NoDate == [some |-> FALSE, d |-> 0]
SomeDate(d) == [some |-> TRUE, d |-> d]

\* str::trim_start / trim_end / trim on a line of runs
RECURSIVE TrimStart(_)
TrimStart(l) ==
  IF l # <<>> /\ Head(l) = SP THEN TrimStart(Tail(l)) ELSE l

RECURSIVE TrimEnd(_)
TrimEnd(l) ==
  IF l # <<>> /\ l[Len(l)] = SP THEN TrimEnd(SubSeq(l, 1, Len(l) - 1)) ELSE l

Trim(l) == TrimEnd(TrimStart(l))

\* str::lines: the runs between line terminators
RECURSIVE LinesFrom(_, _)
LinesFrom(raw, cur) ==
  IF raw = <<>> THEN (IF cur = <<>> THEN <<>> ELSE <<cur>>)
  ELSE IF Head(raw) = CRLF THEN <<cur>> \o LinesFrom(Tail(raw), <<>>)
  ELSE LinesFrom(Tail(raw), Append(cur, Head(raw)))

Lines(raw) == LinesFrom(raw, <<>>)

\* chrono::DateTime::parse_from_rfc2822(..).ok().map(|dt| dt.date_naive())
parse_from_rfc2822(value) ==
  IF Len(value) = 1 /\ value[1].t = "rfc2822"
  THEN SomeDate(value[1].v) ELSE NoDate

\* the loop of parse_email_date: the first "Date:" line decides
RECURSIVE DateOfLines(_)
DateOfLines(ls) ==
  IF ls = <<>> THEN NoDate
  ELSE LET trimmed == Trim(Head(ls)) IN
       IF trimmed # <<>> /\ Head(trimmed) = DateHdr
       THEN parse_from_rfc2822(Trim(Tail(trimmed)))
       ELSE DateOfLines(Tail(ls))

parse_email_date(raw) ==
  IF \E i \in 1..Len(raw) : raw[i] = BadByte   \* from_utf8(raw).ok()?
  THEN NoDate
  ELSE DateOfLines(Lines(raw))

\* SearchKey: [op, d, args]
Key(op, d, args) == [op |-> op, d |-> d, args |-> args]
KAll == Key("All", 0, <<>>)
KUnseen == Key("Unseen", 0, <<>>)
KSeen == Key("Seen", 0, <<>>)
KFlagged == Key("Flagged", 0, <<>>)
KSince(d) == Key("Since", d, <<>>)
KBefore(d) == Key("Before", d, <<>>)
KAnd(keys) == Key("And", 0, keys)
KOr(a, b) == Key("Or", 0, <<a, b>>)
KNot(k) == Key("Not", 0, <<k>>)

\* fault: SINCE compares with > instead of >=
DateSinceStrict(m, date) == m.some /\ m.d > date

\* is_some_and(|d| d >= *date.as_ref())
DateSince(m, date) == m.some /\ m.d >= date

\* fault: BEFORE uses is_none_or instead of is_some_and
DateBeforeOrNone(m, date) == ~m.some \/ m.d < date

\* is_some_and(|d| d < *date.as_ref())
DateBefore(m, date) == m.some /\ m.d < date

\* fault: a key the evaluator does not know matches no message
RECURSIVE matches_key_strict(_, _)
matches_key_strict(email, key) ==
  CASE key.op = "All" -> TRUE
    [] key.op = "Unseen" -> ~email.seen
    [] key.op = "Seen" -> email.seen
    [] key.op = "Since" -> DateSince(parse_email_date(email.raw), key.d)
    [] key.op = "Before" -> DateBefore(parse_email_date(email.raw), key.d)
    [] key.op = "And" ->
         \A i \in 1..Len(key.args) : matches_key_strict(email, key.args[i])
    [] key.op = "Or" ->
         matches_key_strict(email, key.args[1])
           \/ matches_key_strict(email, key.args[2])
    [] key.op = "Not" -> ~matches_key_strict(email, key.args[1])
    [] OTHER -> FALSE

RECURSIVE matches_key(_, _)
matches_key(email, key) ==
  CASE key.op = "All" -> TRUE
    [] key.op = "Unseen" -> ~email.seen
    [] key.op = "Seen" -> email.seen
    [] key.op = "Since" -> DateSince(parse_email_date(email.raw), key.d)
    [] key.op = "Before" -> DateBefore(parse_email_date(email.raw), key.d)
    [] key.op = "And" ->
         \A i \in 1..Len(key.args) : matches_key(email, key.args[i])
    [] key.op = "Or" ->
         matches_key(email, key.args[1]) \/ matches_key(email, key.args[2])
    [] key.op = "Not" -> ~matches_key(email, key.args[1])
    [] OTHER -> TRUE

\* fault: a message is returned when any one key matches
MatchesAny(email, criteria) ==
  \E i \in 1..Len(criteria) : matches_key(email, criteria[i])

\* the filter of handle_uid_search
MatchesAll(email, criteria) ==
  \A i \in 1..Len(criteria) : matches_key(email, criteria[i])

RECURSIVE UidsOf(_)
UidsOf(emails) ==
  IF emails = <<>> THEN <<>> ELSE <<Head(emails).uid>> \o UidsOf(Tail(emails))

SearchLines(tag, criteria, mb, sel) ==
  IF ~sel.some THEN NoFolderSelected(tag)
  ELSE LET fi == get_folder(mb, sel.name) IN
       IF fi = 0 THEN FolderNotFound(tag)
       ELSE LET hit(e) == MatchesAll(e, criteria) IN
            <<[Untagged("SEARCH", 0) EXCEPT
                 !.uids = UidsOf(SelectSeq(mb[fi].emails, hit))],
              Tagged(tag, "OK", "SEARCH completed")>>

\* criteria lists a client may send
LeafKeys ==
  {KAll, KUnseen, KSeen, KFlagged}
    \cup {KSince(d) : d \in Days} \cup {KBefore(d) : d \in Days}

AllCriteria ==
  {<<>>} \cup {<<k>> : k \in LeafKeys}
    \cup {<<KSince(a), KBefore(b)>> : a \in Days, b \in Days}
    \cup {<<KNot(KFlagged)>>, <<KNot(KUnseen)>>, <<KOr(KSeen, KSince(1))>>,
          <<KAnd(<<KUnseen, KFlagged>>)>>, <<KFlagged, KSeen>>}

MainCriteria == {<<KUnseen>>}

UidSearch(c, Criteria) ==
  \E tag \in Tags(c), criteria \in Criteria :
    /\ Idle
    /\ pc[c] = "Loop"
    /\ resp' = SearchLines(tag, criteria, mailbox, selected[c])
    /\ last' = [Cmd(c, tag, "UID SEARCH") EXCEPT !.keys = criteria]
    /\ UNCHANGED <<mailbox, selected>>
    /\ UNCHANGED <<pc, aux>>

(***************************************************************************)
(* Id-sets (imap_types SequenceSet): items are single values or ranges;    *)
(* 0 stands for SeqOrUid::Asterisk, values are NonZeroU32.                 *)
(***************************************************************************)
Star == 0
Single(v) == [range |-> FALSE, a |-> v, b |-> v]
Range(a, b) == [range |-> TRUE, a |-> a, b |-> b]

IdSets ==
  {<<Single(v)>> : v \in 1..(MaxUid + 1)}
    \cup {<<Single(1), Single(v)>> : v \in Uids}
    \cup {<<Range(1, Star)>>, <<Range(Star, MaxUid)>>, <<Single(Star)>>}

\* the id-sets sent in Spec: one message, and every message
MainIdSets == {<<Single(1)>>, <<Range(1, Star)>>}

\* the id-sets sent in SpecCopy
CopyIdSets ==
  {<<Single(v)>> : v \in Uids}
    \cup {<<Single(MaxUid), Single(1)>>, <<Range(1, Star)>>}

\* the id-sets sent in SpecExpunge
ExpungeIdSets == {<<Single(v)>> : v \in 1..MaxLen} \cup {<<Range(1, Star)>>}

\* extract_uids of uid_fetch.rs and uid_copy.rs: single values only
RECURSIVE extract_uids(_)
extract_uids(seq_set) ==
  IF seq_set = <<>> THEN <<>>
  ELSE LET seq == Head(seq_set) IN
       (IF ~seq.range /\ seq.a # Star THEN <<seq.a>> ELSE <<>>)
         \o extract_uids(Tail(seq_set))

\* index of the first email carrying uid, 0 when there is none
FindUid(emails, uid) ==
  IF \E i \in 1..Len(emails) : emails[i].uid = uid
  THEN CHOOSE i \in 1..Len(emails) :
         /\ emails[i].uid = uid
         /\ \A j \in 1..(i - 1) : emails[j].uid # uid
  ELSE 0

(***************************************************************************)
(* UID FETCH (handlers/uid_fetch.rs)                                       *)
(***************************************************************************)
\* fault: the literal count includes the CRLF of the closing line
FetchItemCountsCloser(seq, uid, email) ==
  <<[Untagged("FETCH", seq) EXCEPT !.uid = uid,
                                   !.lit = ByteLen(email.raw) + TokLen(CRLF)],
    [Untagged("LITERAL", 0) EXCEPT !.bytes = email.raw],
    Untagged("CLOSE", 0)>>

\* the three writes for one message: header with {N}, payload, ")"
FetchItem(seq, uid, email) ==
  LET body_len == ByteLen(email.raw) IN   \* email.raw.len()
  <<[Untagged("FETCH", seq) EXCEPT !.uid = uid, !.lit = body_len],
    [Untagged("LITERAL", 0) EXCEPT !.bytes = email.raw],
    Untagged("CLOSE", 0)>>

RECURSIVE FetchItems(_, _)
FetchItems(emails, uids) ==
  IF uids = <<>> THEN <<>>
  ELSE LET idx == FindUid(emails, Head(uids)) IN
       (IF idx # 0 THEN FetchItem(idx, Head(uids), emails[idx]) ELSE <<>>)
         \o FetchItems(emails, Tail(uids))

FetchLines(tag, sequence_set, mb, sel) ==
  IF ~sel.some THEN NoFolderSelected(tag)
  ELSE LET fi == get_folder(mb, sel.name) IN
       IF fi = 0 THEN FolderNotFound(tag)
       ELSE FetchItems(mb[fi].emails, extract_uids(sequence_set))
              \o <<Tagged(tag, "OK", "FETCH completed")>>

\* fault: the fetched messages are marked seen
AfterFetchSeen(mb, sel, sequence_set) ==
  IF ~sel.some \/ get_folder(mb, sel.name) = 0 THEN mb
  ELSE LET fi == get_folder(mb, sel.name)
           uids == extract_uids(sequence_set)
       IN  [mb EXCEPT ![fi].emails =
              [i \in 1..Len(@) |->
                 IF \E k \in 1..Len(uids) : uids[k] = @[i].uid
                 THEN [@[i] EXCEPT !.seen = TRUE] ELSE @[i]]]

\* the mailbox after handle_uid_fetch: the handler has a shared reference
\* (&Mailbox) and only reads through it
AfterFetch(mb, sel, sequence_set) == mb

UidFetch(c, Sets) ==
  \E tag \in Tags(c), sequence_set \in Sets :
    /\ Idle
    /\ pc[c] = "Loop"
    /\ resp' = FetchLines(tag, sequence_set, mailbox, selected[c])
    /\ last' = [Cmd(c, tag, "UID FETCH") EXCEPT !.idset = sequence_set]
    /\ mailbox' = AfterFetch(mailbox, selected[c], sequence_set)
    /\ UNCHANGED selected
    /\ UNCHANGED <<pc, aux>>

(***************************************************************************)
(* UID STORE (handlers/uid_store.rs)                                       *)
(***************************************************************************)
\* lo..=hi as a sequence
RECURSIVE UpTo(_, _)
UpTo(lo, hi) == IF lo > hi THEN <<>> ELSE <<lo>> \o UpTo(lo + 1, hi)

\* extract_uids of uid_store.rs: single values and ranges
RECURSIVE extract_uids_store(_, _)
extract_uids_store(seq_set, max_uid) ==
  IF seq_set = <<>> THEN <<>>
  ELSE LET seq == Head(seq_set)
           a == IF seq.a = Star THEN max_uid ELSE seq.a
           b == IF seq.b = Star THEN max_uid ELSE seq.b
           lo == IF a <= b THEN a ELSE b
           hi == IF a <= b THEN b ELSE a
       IN  (IF seq.range THEN UpTo(lo, hi)
            ELSE IF seq.a # Star THEN <<seq.a>> ELSE <<>>)
             \o extract_uids_store(Tail(seq_set), max_uid)

StoreKinds == {"Add", "Remove", "Replace"}
FlagSets == SUBSET {"Seen", "Deleted"}

\* the match on args.kind
StoreFlags(email, kind, wants_seen, wants_deleted) ==
  CASE kind = "Add" ->
         [email EXCEPT !.seen = wants_seen \/ @,
                       !.deleted = wants_deleted \/ @]
    [] kind = "Remove" ->
         [email EXCEPT !.seen = ~wants_seen /\ @,
                       !.deleted = ~wants_deleted /\ @]
    [] kind = "Replace" ->
         [email EXCEPT !.seen = wants_seen, !.deleted = wants_deleted]

\* the Vec `current` of flag names
CurrentFlags(email) ==
  (IF email.seen THEN <<"\\Seen">> ELSE <<>>)
    \o (IF email.deleted THEN <<"\\Deleted">> ELSE <<>>)

\* the loop `for uid in uids`: the emails and the results after it
RECURSIVE StoreLoop(_, _, _, _, _)
StoreLoop(emails, uids, kind, flags, results) ==
  IF uids = <<>> THEN [emails |-> emails, results |-> results]
  ELSE LET uid == Head(uids)
           idx == FindUid(emails, uid)
       IN  IF idx = 0
           THEN StoreLoop(emails, Tail(uids), kind, flags, results)
           ELSE LET email == StoreFlags(emails[idx], kind,
                                        "Seen" \in flags, "Deleted" \in flags)
                    line == [Untagged("FETCH", idx) EXCEPT
                               !.uid = uid, !.flags = CurrentFlags(email)]
                IN  StoreLoop([emails EXCEPT ![idx] = email], Tail(uids),
                              kind, flags, Append(results, line))

MaxOfUids(emails) ==
  IF emails = <<>> THEN 0
  ELSE CHOOSE m \in {emails[i].uid : i \in 1..Len(emails)} :
         \A i \in 1..Len(emails) : emails[i].uid <= m

\* the lock span of handle_uid_store on folder index fi
StoreResult(mb, fi, sequence_set, kind, flags) ==
  LET emails == mb[fi].emails
      uids == extract_uids_store(sequence_set, MaxOfUids(emails))
  IN  StoreLoop(emails, uids, kind, flags, <<>>)

StoreMailbox(mb, sel, sequence_set, kind, flags) ==
  IF ~sel.some THEN mb
  ELSE LET fi == get_folder(mb, sel.name) IN
       IF fi = 0 THEN mb
       ELSE [mb EXCEPT ![fi].emails =
               StoreResult(mb, fi, sequence_set, kind, flags).emails]

StoreLines(tag, mb, sel, sequence_set, kind, flags, silent) ==
  IF ~sel.some THEN NoFolderSelected(tag)
  ELSE LET fi == get_folder(mb, sel.name) IN
       IF fi = 0 THEN FolderNotFound(tag)
       ELSE (IF silent THEN <<>>
             ELSE StoreResult(mb, fi, sequence_set, kind, flags).results)
              \o <<Tagged(tag, "OK", "STORE completed")>>

UidStore(c, Sets, Kinds, FlagChoices, SilentChoices) ==
  \E tag \in Tags(c), sequence_set \in Sets, kind \in Kinds,
     flags \in FlagChoices, silent \in SilentChoices :
    /\ Idle
    /\ pc[c] = "Loop"
    /\ mailbox' = StoreMailbox(mailbox, selected[c], sequence_set, kind, flags)
    /\ resp' = StoreLines(tag, mailbox, selected[c], sequence_set, kind,
                          flags, silent)
    /\ last' = [Cmd(c, tag, "UID STORE") EXCEPT
                 !.idset = sequence_set, !.kind = kind, !.flags = flags,
                 !.silent = silent]
    /\ UNCHANGED selected
    /\ UNCHANGED <<pc, aux>>

(***************************************************************************)
(* UID COPY (handlers/uid_copy.rs)                                         *)
(***************************************************************************)
\* uids.contains(&e.uid)
Contains(uids, uid) == \E i \in 1..Len(uids) : uids[i] = uid

\* fault: the clones are pushed with their flags cleared
EmailsToCopyUnflagged(emails, uids) ==
  LET wanted(e) == Contains(uids, e.uid)
      picked == SelectSeq(emails, wanted)
  IN  [i \in 1..Len(picked) |->
         [picked[i] EXCEPT !.seen = FALSE, !.deleted = FALSE]]

\* emails_to_copy
EmailsToCopy(emails, uids) ==
  LET wanted(e) == Contains(uids, e.uid) IN SelectSeq(emails, wanted)

\* the lock span of handle_uid_copy: push every clone onto dest
CopyInto(mb, si, di, uids) ==
  [mb EXCEPT ![di].emails = @ \o EmailsToCopy(mb[si].emails, uids)]

CopyMailbox(mb, sel, sequence_set, dest_folder) ==
  IF ~sel.some THEN mb
  ELSE LET si == get_folder(mb, sel.name)
           di == get_folder(mb, dest_folder)
       IN  IF si = 0 \/ di = 0 THEN mb
           ELSE CopyInto(mb, si, di, extract_uids(sequence_set))

\* fault: a missing destination is answered like a missing source
CopyLinesBadDest(tag, mb, sel, dest_folder) ==
  IF ~sel.some THEN NoFolderSelected(tag)
  ELSE IF get_folder(mb, sel.name) = 0 \/ get_folder(mb, dest_folder) = 0
       THEN <<Tagged(tag, "BAD", "Source folder not found")>>
  ELSE <<Tagged(tag, "OK", "COPY completed")>>

CopyLines(tag, mb, sel, dest_folder) ==
  IF ~sel.some THEN NoFolderSelected(tag)
  ELSE IF get_folder(mb, sel.name) = 0
       THEN <<Tagged(tag, "BAD", "Source folder not found")>>
  ELSE IF get_folder(mb, dest_folder) = 0
       THEN <<Tagged(tag, "NO", "[TRYCREATE] Destination folder not found")>>
  ELSE <<Tagged(tag, "OK", "COPY completed")>>

\* number of messages in the mailbox
RECURSIVE TotalMsgs(_)
TotalMsgs(mb) ==
  IF mb = <<>> THEN 0 ELSE Len(Head(mb).emails) + TotalMsgs(Tail(mb))

UidCopy(c, Sets, Cap) ==
  \E tag \in Tags(c), sequence_set \in Sets, dest_folder \in Names :
    /\ Idle
    /\ pc[c] = "Loop"
    /\ TotalMsgs(CopyMailbox(mailbox, selected[c], sequence_set,
                             dest_folder)) <= Cap
    /\ mailbox' = CopyMailbox(mailbox, selected[c], sequence_set, dest_folder)
    /\ resp' = CopyLines(tag, mailbox, selected[c], dest_folder)
    /\ last' = [Cmd(c, tag, "UID COPY") EXCEPT
                 !.idset = sequence_set, !.name = dest_folder]
    /\ UNCHANGED selected
    /\ UNCHANGED <<pc, aux>>

(***************************************************************************)
(* EXPUNGE (handlers/expunge.rs)                                           *)
(***************************************************************************)
\* deleted_indices: the 0-based indices of the deleted emails, ascending
RECURSIVE DeletedIndices(_, _)
DeletedIndices(emails, i) ==
  IF i > Len(emails) THEN <<>>
  ELSE (IF emails[i].deleted THEN <<i - 1>> ELSE <<>>)
         \o DeletedIndices(emails, i + 1)

\* fault: the pre-removal sequence number is reported
ExpungeSeqStale(idx, offset) == idx + 1

\* seq = idx + 1 - offset
ExpungeSeq(idx, offset) == idx + 1 - offset

\* the loop over deleted_indices.iter().enumerate()
ExpungeSeqs(deleted_indices) ==
  [k \in 1..Len(deleted_indices) |-> ExpungeSeq(deleted_indices[k], k - 1)]

\* Vec::remove(idx), idx 0-based
VecRemove(emails, idx) ==
  SubSeq(emails, 1, idx) \o SubSeq(emails, idx + 2, Len(emails))

\* fault: the indices are removed front to back without adjusting them
\* (an index past the end removes nothing)
RECURSIVE RemoveFrontToBack(_, _)
RemoveFrontToBack(emails, deleted_indices) ==
  IF deleted_indices = <<>> THEN emails
  ELSE RemoveFrontToBack(
         IF Head(deleted_indices) < Len(emails)
           THEN VecRemove(emails, Head(deleted_indices))
           ELSE emails,
         Tail(deleted_indices))

\* for idx in deleted_indices.iter().rev() { folder.emails.remove(*idx) }
RECURSIVE RemoveBackToFront(_, _)
RemoveBackToFront(emails, deleted_indices) ==
  IF deleted_indices = <<>> THEN emails
  ELSE RemoveBackToFront(
         VecRemove(emails, deleted_indices[Len(deleted_indices)]),
         SubSeq(deleted_indices, 1, Len(deleted_indices) - 1))

ExpungeMailbox(mb, sel) ==
  IF ~sel.some THEN mb
  ELSE LET fi == get_folder(mb, sel.name) IN
       IF fi = 0 THEN mb
       ELSE [mb EXCEPT ![fi].emails =
               RemoveBackToFront(@, DeletedIndices(@, 1))]

ExpungeLines(tag, mb, sel) ==
  IF ~sel.some THEN NoFolderSelected(tag)
  ELSE LET fi == get_folder(mb, sel.name) IN
       IF fi = 0 THEN FolderNotFound(tag)
       ELSE LET seqs == ExpungeSeqs(DeletedIndices(mb[fi].emails, 1)) IN
            [k \in 1..Len(seqs) |-> Untagged("EXPUNGE", seqs[k])]
              \o <<Tagged(tag, "OK", "EXPUNGE completed")>>

Expunge(c) ==
  \E tag \in Tags(c) :
    /\ Idle
    /\ pc[c] = "Loop"
    /\ mailbox' = ExpungeMailbox(mailbox, selected[c])
    /\ resp' = ExpungeLines(tag, mailbox, selected[c])
    /\ last' = Cmd(c, tag, "EXPUNGE")
    /\ UNCHANGED selected
    /\ UNCHANGED <<pc, aux>>

(***************************************************************************)
(* The life of one connection task (server.rs, handle_connection): the     *)
(* plaintext greeting, the one line read before the upgrade, the TLS       *)
(* handshake, the command loop and its end.  pc[c] is the task's position: *)
(* "Greeting", "AwaitStartTls", "Upgrading", "Loop" or "Closed" (the task  *)
(* has returned and its socket is dropped).                                *)
(***************************************************************************)
\* str::to_uppercase on the command words the clients below send
to_uppercase(word) == IF word = "starttls" THEN "STARTTLS" ELSE word

\* the words a client puts after the tag on its first line
FirstCommands == {"STARTTLS", "starttls", "LOGIN", "SELECT"}

\* fault: the first line is not looked at
AnyFirstCommand(command) == TRUE

\* if command != "STARTTLS"
IsStartTls(command) == command = "STARTTLS"

\* writer.write_all(b"* OK IMAP4rev1 Fake server ready\r\n"); the task
\* returns when the write fails
Greet(c) ==
  /\ Idle
  /\ pc[c] = "Greeting"
  /\ \E written \in BOOLEAN :
       IF written
       THEN /\ pc' = [pc EXCEPT ![c] = "AwaitStartTls"]
            /\ last' = [Cmd0 EXCEPT !.conn = c]
            /\ resp' = <<[Untagged("OK", 0) EXCEPT
                           !.text = "IMAP4rev1 Fake server ready"]>>
       ELSE /\ pc' = [pc EXCEPT ![c] = "Closed"]
            /\ UNCHANGED <<last, resp>>
  /\ UNCHANGED <<mailbox, selected, aux>>

\* the read of the first line fails, or the line has no second word: the
\* task returns and nothing is written
FirstLineUnreadable(c) ==
  /\ Idle
  /\ pc[c] = "AwaitStartTls"
  /\ pc' = [pc EXCEPT ![c] = "Closed"]
  /\ UNCHANGED <<mailbox, selected, last, resp, aux>>

\* the first line is "<tag> <command>": anything but STARTTLS is answered
\* with one tagged BAD and the task returns; STARTTLS is answered with the
\* tagged OK, and the task returns when that write fails
FirstLine(c) ==
  \E tag \in Tags(c), word \in FirstCommands :
    LET command == to_uppercase(word) IN
    /\ Idle
    /\ pc[c] = "AwaitStartTls"
    /\ IF ~IsStartTls(command)
       THEN /\ pc' = [pc EXCEPT ![c] = "Closed"]
            /\ last' = Cmd(c, tag, command)
            /\ resp' = <<Tagged(tag, "BAD", "Expected STARTTLS")>>
       ELSE \E written \in BOOLEAN :
              IF written
              THEN /\ pc' = [pc EXCEPT ![c] = "Upgrading"]
                   /\ last' = Cmd(c, tag, command)
                   /\ resp' = <<Tagged(tag, "OK", "Begin TLS negotiation now")>>
              ELSE /\ pc' = [pc EXCEPT ![c] = "Closed"]
                   /\ UNCHANGED <<last, resp>>
    /\ UNCHANGED <<mailbox, selected, aux>>

\* acceptor.accept(tcp): on success the task wraps the TLS stream, starts
\* with no folder selected and enters the loop; on failure it returns
TlsAccept(c) ==
  /\ pc[c] = "Upgrading"
  /\ \E accepted \in BOOLEAN :
       IF accepted
       THEN /\ pc' = [pc EXCEPT ![c] = "Loop"]
            /\ local' = [local EXCEPT ![c].tls = TRUE]
            /\ selected' = [selected EXCEPT ![c] = None]
       ELSE /\ pc' = [pc EXCEPT ![c] = "Closed"]
            /\ UNCHANGED <<local, selected>>
  /\ UNCHANGED <<mailbox, last, resp, lock, client>>

\* handle_login: any credentials are accepted
Login(c) ==
  \E tag \in Tags(c) :
    /\ Idle
    /\ pc[c] = "Loop"
    /\ last' = Cmd(c, tag, "LOGIN")
    /\ resp' = <<Tagged(tag, "OK", "LOGIN completed")>>
    /\ UNCHANGED <<mailbox, selected, pc, aux>>

\* the lines handle_list writes
ListLines(tag, mb) ==
  [i \in 1..Len(mb) |-> [Untagged("LIST", 0) EXCEPT !.text = mb[i].name]]
    \o <<Tagged(tag, "OK", "LIST completed")>>

\* handle_capability
Capability(c) ==
  \E tag \in Tags(c) :
    /\ Idle
    /\ pc[c] = "Loop"
    /\ last' = Cmd(c, tag, "CAPABILITY")
    /\ resp' = <<[Untagged("CAPABILITY", 0) EXCEPT
                    !.text = "IMAP4rev1 STARTTLS"],
                 Tagged(tag, "OK", "CAPABILITY completed")>>
    /\ UNCHANGED <<mailbox, selected, pc, aux>>

\* handle_noop
Noop(c) ==
  \E tag \in Tags(c) :
    /\ Idle
    /\ pc[c] = "Loop"
    /\ last' = Cmd(c, tag, "NOOP")
    /\ resp' = <<Tagged(tag, "OK", "NOOP completed")>>
    /\ UNCHANGED <<mailbox, selected, pc, aux>>

\* handle_list
List(c) ==
  \E tag \in Tags(c) :
    /\ Idle
    /\ pc[c] = "Loop"
    /\ last' = Cmd(c, tag, "LIST")
    /\ resp' = ListLines(tag, mailbox)
    /\ UNCHANGED <<mailbox, selected, pc, aux>>

\* fault: the LOGOUT branch does not leave the loop
AfterLogoutStay == "Loop"

\* the position of the task after the LOGOUT branch: break
AfterLogout == "Closed"

\* handle_logout, then break
Logout(c) ==
  \E tag \in Tags(c) :
    /\ Idle
    /\ pc[c] = "Loop"
    /\ last' = Cmd(c, tag, "LOGOUT")
    /\ resp' = <<Untagged("BYE", 0), Tagged(tag, "OK", "LOGOUT completed")>>
    /\ pc' = [pc EXCEPT ![c] = AfterLogout]
    /\ UNCHANGED <<mailbox, selected, aux>>

\* fault: the loop is left after a command was turned away
AfterRejectLeave == "Closed"

\* the position of the task after the BAD of the else branch was written:
\* the loop goes round
AfterReject == "Loop"

\* a command word no branch of the loop matches: the BAD is written and the
\* loop goes on, or the write fails and the loop is left
UnknownCommand(c) ==
  \E tag \in Tags(c), written \in BOOLEAN :
    /\ Idle
    /\ pc[c] = "Loop"
    /\ IF written
       THEN /\ last' = Cmd(c, tag, "XYZZY")
            /\ resp' = <<Tagged(tag, "BAD", "Unknown command")>>
            /\ pc' = [pc EXCEPT ![c] = AfterReject]
       ELSE /\ pc' = [pc EXCEPT ![c] = "Closed"]
            /\ UNCHANGED <<last, resp>>
    /\ UNCHANGED <<mailbox, selected, aux>>

\* read_line returns Ok(0) or Err(_): break
Disconnect(c) ==
  /\ Idle
  /\ pc[c] = "Loop"
  /\ pc' = [pc EXCEPT ![c] = "Closed"]
  /\ UNCHANGED <<mailbox, selected, last, resp, aux>>

(***************************************************************************)
(* The write handlers step by step (uid_store.rs, uid_copy.rs,             *)
(* expunge.rs): each takes the mailbox mutex once to see whether the       *)
(* folders exist and once to read and mutate, and writes its lines to the  *)
(* socket afterwards.  lock is the connection holding the mutex (0: free), *)
(* pc[c] the task's position: "Loop" (reading the next command line),      *)
(* "LockCheck", "Check", "LockMutate", "Mutate" or "Write".                *)
(***************************************************************************)
\* fault: the guard is still alive when the handler goes on to write
StillHeld(c) == c

\* drop(mb)
Released(c) == 0

\* the write commands the clients of SpecLock send
WriteCmds(c) ==
  {[Cmd(c, tag, "UID STORE") EXCEPT
      !.idset = <<Range(1, Star)>>, !.kind = "Add", !.flags = {"Deleted"}] :
     tag \in Tags(c)}
    \cup {[Cmd(c, tag, "UID COPY") EXCEPT
             !.idset = <<Single(1)>>, !.name = dest_folder] :
            tag \in Tags(c), dest_folder \in {"Archive", "NoSuch"}}
    \cup {Cmd(c, tag, "EXPUNGE") : tag \in Tags(c)}

\* the messages the UID COPY commands being handled may still add
CopiesInFlight ==
  Cardinality({c \in Conns : local[c].cmd.cmd = "UID COPY"})

\* the task reads a write command off its socket and its handler starts:
\* with no folder selected the handler goes straight to writing its BAD
ReadWriteCommand(c, Cap) ==
  \E cmd \in WriteCmds(c) :
    /\ pc[c] = "Loop"
    /\ cmd.cmd = "UID COPY" => TotalMsgs(mailbox) + CopiesInFlight < Cap
    /\ IF ~cmd.sel.some
       THEN /\ local' = [local EXCEPT ![c].cmd = cmd,
                                      ![c].lines = NoFolderSelected(cmd.tag)]
            /\ pc' = [pc EXCEPT ![c] = "Write"]
       ELSE /\ local' = [local EXCEPT ![c].cmd = cmd]
            /\ pc' = [pc EXCEPT ![c] = "LockCheck"]
    /\ UNCHANGED <<mailbox, selected, last, resp, lock, client>>

\* mailbox.lock().unwrap()
Acquire(c, at, then) ==
  /\ pc[c] = at
  /\ lock = 0
  /\ lock' = c
  /\ pc' = [pc EXCEPT ![c] = then]
  /\ UNCHANGED <<mailbox, selected, last, resp, local, client>>

\* the lines a handler writes when its existence check fails, <<>> when
\* the check passes
CheckLines(cmd, mb) ==
  IF cmd.cmd = "UID COPY"
  THEN IF get_folder(mb, cmd.sel.name) = 0 \/ get_folder(mb, cmd.name) = 0
       THEN CopyLines(cmd.tag, mb, cmd.sel, cmd.name)
       ELSE <<>>
  ELSE IF get_folder(mb, cmd.sel.name) = 0 THEN FolderNotFound(cmd.tag)
       ELSE <<>>

\* the block of the existence check: the guard goes out of scope at its end
CheckExists(c) ==
  LET lines == CheckLines(local[c].cmd, mailbox) IN
  /\ pc[c] = "Check"
  /\ lock' = 0
  /\ local' = [local EXCEPT ![c].exists = (lines = <<>>), ![c].lines = lines]
  /\ pc' = [pc EXCEPT ![c] = IF lines = <<>> THEN "LockMutate" ELSE "Write"]
  /\ UNCHANGED <<mailbox, selected, last, resp, client>>

\* fault: a write command drops the folders it leaves without a message
MutatedMailboxPruned(cmd, mb) ==
  LET left == IF cmd.cmd = "UID STORE"
              THEN StoreMailbox(mb, cmd.sel, cmd.idset, cmd.kind, cmd.flags)
              ELSE IF cmd.cmd = "UID COPY"
              THEN CopyMailbox(mb, cmd.sel, cmd.idset, cmd.name)
              ELSE ExpungeMailbox(mb, cmd.sel)
  IN  SelectSeq(left, LAMBDA f : f.emails # <<>>)

\* the mailbox a write command leaves
MutatedMailbox(cmd, mb) ==
  IF cmd.cmd = "UID STORE"
  THEN StoreMailbox(mb, cmd.sel, cmd.idset, cmd.kind, cmd.flags)
  ELSE IF cmd.cmd = "UID COPY"
  THEN CopyMailbox(mb, cmd.sel, cmd.idset, cmd.name)
  ELSE ExpungeMailbox(mb, cmd.sel)

\* the lines a write command answers with
MutateLines(cmd, mb) ==
  IF cmd.cmd = "UID STORE"
  THEN StoreLines(cmd.tag, mb, cmd.sel, cmd.idset, cmd.kind, cmd.flags,
                  cmd.silent)
  ELSE IF cmd.cmd = "UID COPY"
  THEN CopyLines(cmd.tag, mb, cmd.sel, cmd.name)
  ELSE ExpungeLines(cmd.tag, mb, cmd.sel)

\* the read-and-mutate block, ended by drop(mb)
Mutate(c) ==
  /\ pc[c] = "Mutate"
  /\ mailbox' = MutatedMailbox(local[c].cmd, mailbox)
  /\ local' = [local EXCEPT ![c].lines = MutateLines(local[c].cmd, mailbox)]
  /\ lock' = Released(c)
  /\ pc' = [pc EXCEPT ![c] = "Write"]
  /\ UNCHANGED <<selected, last, resp, client>>

\* write_line: one line goes out, or the write fails; after the last line,
\* and after a failed write, the handler returns to the loop
WriteLine(c) ==
  /\ pc[c] = "Write"
  /\ \E written \in BOOLEAN :
       IF written /\ Len(local[c].lines) > 1
       THEN /\ local' = [local EXCEPT ![c].lines = Tail(@)]
            /\ UNCHANGED pc
       ELSE /\ local' = [local EXCEPT ![c].lines = <<>>, ![c].cmd = Cmd0,
                                      ![c].exists = FALSE]
            /\ pc' = [pc EXCEPT ![c] = "Loop"]
  /\ UNCHANGED <<mailbox, selected, last, resp, lock, client>>

(***************************************************************************)
(* The read-and-mutate block of the write handlers taken one loop          *)
(* iteration at a time: the handler computes what it has to go through     *)
(* (the UIDs of a STORE, the clones of a COPY, the indices of an EXPUNGE), *)
(* then marks, pushes or removes one item per step, holding the guard all  *)
(* along, and drops the guard when the loop is through.                    *)
(***************************************************************************)
\* fault: the guard is given up between two iterations of the loop
GuardLetGo(c) == 0

\* `mb`, the MutexGuard, alive over the whole block
GuardKept(c) == c

\* the items of the loop: uids, emails_to_copy, deleted_indices
WorkOf(cmd, mb) ==
  LET emails == mb[get_folder(mb, cmd.sel.name)].emails IN
  IF cmd.cmd = "UID STORE"
  THEN extract_uids_store(cmd.idset, MaxOfUids(emails))
  ELSE IF cmd.cmd = "UID COPY"
  THEN EmailsToCopy(emails, extract_uids(cmd.idset))
  ELSE DeletedIndices(emails, 1)

\* the write commands the clients of SpecAtomic send: each works on more
\* than one message
AtomicCmds(c) ==
  {[Cmd(c, tag, "UID STORE") EXCEPT
      !.idset = <<Range(1, Star)>>, !.kind = "Add", !.flags = {"Deleted"}] :
     tag \in Tags(c)}
    \cup {[Cmd(c, tag, "UID COPY") EXCEPT
             !.idset = <<Single(1), Single(2)>>, !.name = "Archive"] :
            tag \in Tags(c)}
    \cup {Cmd(c, tag, "EXPUNGE") : tag \in Tags(c)}

\* the messages a UID COPY of AtomicCmds may add
CopyRoom(mb) == TotalMsgs(mb) + 2 * (CopiesInFlight + 1)

\* the task reads a write command off its socket and its handler starts
ReadAtomicCommand(c, Cap) ==
  \E cmd \in AtomicCmds(c) :
    /\ pc[c] = "Loop"
    /\ cmd.sel.some
    /\ cmd.cmd = "UID COPY" => CopyRoom(mailbox) <= Cap
    /\ local' = [local EXCEPT ![c].cmd = cmd]
    /\ pc' = [pc EXCEPT ![c] = "LockCheck"]
    /\ UNCHANGED <<mailbox, selected, last, resp, lock, client>>

\* the head of the block: the loop's items are computed (and, in EXPUNGE,
\* the sequence numbers to report)
BeginMutate(c) ==
  LET cmd == local[c].cmd IN
  /\ pc[c] = "Mutate"
  /\ local' = [local EXCEPT
       ![c].work = WorkOf(cmd, mailbox),
       ![c].snap = mailbox,
       ![c].lines =
         IF cmd.cmd = "EXPUNGE"
         THEN LET seqs == ExpungeSeqs(WorkOf(cmd, mailbox)) IN
              [k \in 1..Len(seqs) |-> Untagged("EXPUNGE", seqs[k])]
         ELSE <<>>]
  /\ pc' = [pc EXCEPT ![c] = "Mutating"]
  /\ UNCHANGED <<mailbox, selected, last, resp, lock, client>>

\* Vec::remove on an index the folder may no longer have
RemoveAt(emails, idx) ==
  IF idx < Len(emails) THEN VecRemove(emails, idx) ELSE emails

\* one iteration: the next UID is looked up and its message marked, the
\* next clone is pushed onto the destination, or the last index not yet
\* removed is removed
MutateStep(c) ==
  LET cmd == local[c].cmd
      work == local[c].work
      fi == get_folder(mailbox, cmd.sel.name)
      one == StoreLoop(mailbox[fi].emails, <<Head(work)>>, cmd.kind,
                       cmd.flags, <<>>)
  IN
  /\ pc[c] = "Mutating"
  /\ work # <<>>
  /\ IF cmd.cmd = "UID STORE"
     THEN /\ mailbox' = [mailbox EXCEPT ![fi].emails = one.emails]
          /\ local' = [local EXCEPT ![c].work = Tail(work),
                                    ![c].lines = @ \o one.results]
     ELSE IF cmd.cmd = "UID COPY"
     THEN /\ mailbox' = [mailbox EXCEPT
                 ![get_folder(mailbox, cmd.name)].emails =
                    Append(@, Head(work))]
          /\ local' = [local EXCEPT ![c].work = Tail(work)]
     ELSE /\ mailbox' = [mailbox EXCEPT
                 ![fi].emails = RemoveAt(@, work[Len(work)])]
          /\ local' = [local EXCEPT
                 ![c].work = SubSeq(work, 1, Len(work) - 1)]
  /\ lock' = GuardKept(c)
  /\ UNCHANGED <<selected, last, resp, pc, client>>

\* the text of the tagged OK of a write command
Completed(cmd) ==
  IF cmd.cmd = "UID STORE" THEN "STORE completed"
  ELSE IF cmd.cmd = "UID COPY" THEN "COPY completed"
  ELSE "EXPUNGE completed"

\* the loop is through: drop(mb); a silent STORE keeps none of its results
EndMutate(c) ==
  LET cmd == local[c].cmd IN
  /\ pc[c] = "Mutating"
  /\ local[c].work = <<>>
  /\ lock' = 0
  /\ local' = [local EXCEPT ![c].lines =
       (IF cmd.cmd = "UID STORE" /\ cmd.silent THEN <<>> ELSE @)
         \o <<Tagged(cmd.tag, "OK", Completed(cmd))>>]
  /\ pc' = [pc EXCEPT ![c] = "Write"]
  /\ UNCHANGED <<mailbox, selected, last, resp, client>>

\* a read handler (here UID SEARCH ALL) works on a clone of the mailbox
\* taken under the lock, which is released before anything is written
SnapshotRead(c) ==
  \E tag \in Tags(c) :
    /\ pc[c] = "Loop"
    /\ lock = 0
    /\ local' = [local EXCEPT
         ![c].cmd = [Cmd(c, tag, "UID SEARCH") EXCEPT !.keys = <<KAll>>],
         ![c].snap = mailbox,
         ![c].lines = SearchLines(tag, <<KAll>>, mailbox, selected[c])]
    /\ pc' = [pc EXCEPT ![c] = "Write"]
    /\ UNCHANGED <<mailbox, selected, last, resp, lock, client>>

\* the write_line loop to its end (every line written, or a write failed):
\* the handler returns and its locals go out of scope
WriteOut(c) ==
  /\ pc[c] = "Write"
  /\ local' = [local EXCEPT ![c] = [Local0 EXCEPT !.tls = TRUE]]
  /\ pc' = [pc EXCEPT ![c] = "Loop"]
  /\ UNCHANGED <<mailbox, selected, last, resp, lock, client>>

(***************************************************************************)
(* The dispatch of the command loop (server.rs, handle_connection): the    *)
(* text after the tag is upper-cased and tried against the prefixes of the *)
(* branches in turn.                                                       *)
(***************************************************************************)
\* the bytes of a command word
Bytes(word) ==
  CASE word = "CAPABILITY" -> <<"C", "A", "P", "A", "B", "I", "L", "I", "T", "Y">>
    [] word = "NOOP" -> <<"N", "O", "O", "P">>
    [] word = "LOGIN" -> <<"L", "O", "G", "I", "N">>
    [] word = "LIST" -> <<"L", "I", "S", "T">>
    [] word = "LISTEN" -> <<"L", "I", "S", "T", "E", "N">>
    [] word = "SELECT" -> <<"S", "E", "L", "E", "C", "T">>
    [] word = "UID SEARCH" -> <<"U", "I", "D", " ", "S", "E", "A", "R", "C", "H">>
    [] word = "UID FETCH" -> <<"U", "I", "D", " ", "F", "E", "T", "C", "H">>
    [] word = "UID STORE" -> <<"U", "I", "D", " ", "S", "T", "O", "R", "E">>
    [] word = "UID COPY" -> <<"U", "I", "D", " ", "C", "O", "P", "Y">>
    [] word = "EXPUNGE" -> <<"E", "X", "P", "U", "N", "G", "E">>
    [] word = "LOGOUT" -> <<"L", "O", "G", "O", "U", "T">>
    [] OTHER -> <<"X", "Y", "Z", "Z", "Y">>

\* str::starts_with
starts_with(s, prefix) ==
  Len(prefix) <= Len(s) /\ SubSeq(s, 1, Len(prefix)) = prefix

\* the if / else if chain over `upper`: the branch taken, "" for the else
Route(upper) ==
  IF starts_with(upper, Bytes("LOGIN")) THEN "LOGIN"
  ELSE IF starts_with(upper, Bytes("LIST")) THEN "LIST"
  ELSE IF starts_with(upper, Bytes("SELECT")) THEN "SELECT"
  ELSE IF starts_with(upper, Bytes("UID SEARCH")) THEN "UID SEARCH"
  ELSE IF starts_with(upper, Bytes("UID FETCH")) THEN "UID FETCH"
  ELSE IF starts_with(upper, Bytes("LOGOUT")) THEN "LOGOUT"
  ELSE ""

\* the command words the clients of SpecDispatch send
LoopWords ==
  {"CAPABILITY", "NOOP", "LOGIN", "LIST", "SELECT", "UID SEARCH",
   "UID FETCH", "UID STORE", "UID COPY", "EXPUNGE", "LOGOUT", "XYZZY",
   "LISTEN"}

\* the lines the branch writes (SELECT names INBOX, UID SEARCH asks for
\* ALL, UID FETCH for UID 1)
RouteLines(route, tag, mb, sel) ==
  CASE route = "LOGIN" -> <<Tagged(tag, "OK", "LOGIN completed")>>
    [] route = "LIST" -> ListLines(tag, mb)
    [] route = "SELECT" -> SelectLines(tag, "INBOX", mb)
    [] route = "UID SEARCH" -> SearchLines(tag, <<KAll>>, mb, sel)
    [] route = "UID FETCH" -> FetchLines(tag, <<Single(1)>>, mb, sel)
    [] route = "LOGOUT" ->
         <<Untagged("BYE", 0), Tagged(tag, "OK", "LOGOUT completed")>>
    [] OTHER -> <<Tagged(tag, "BAD", "Unknown command")>>

\* a round of the loop on a line without a second word: the line is empty
\* once trimmed (token "") or a single token; either way the loop goes
\* round (`continue`) and nothing is written.  last.tag is the token.
ShortLine(c, Tokens) ==
  \E token \in Tokens :
    /\ Idle
    /\ pc[c] = "Loop"
    /\ last' = [Cmd0 EXCEPT !.conn = c, !.tag = token]
    /\ resp' = <<>>
    /\ UNCHANGED <<mailbox, selected, pc, aux>>

\* one round of the loop: a line "<tag> <word> .." is read and the branch
\* its text selects answers it; last.cmd is the word as the client sent it.
\* When the socket takes no write the task ends with nothing answered.
Dispatch(c, Words) ==
  \E tag \in Tags(c), word \in Words, written \in BOOLEAN :
    LET route == Route(Bytes(word)) IN
    /\ Idle
    /\ pc[c] = "Loop"
    /\ IF written
       THEN /\ last' = Cmd(c, tag, word)
            /\ resp' = RouteLines(route, tag, mailbox, selected[c])
            /\ selected' =
                 IF route = "SELECT"
                 THEN [selected EXCEPT ![c] = handle_select("INBOX", mailbox)]
                 ELSE selected
            /\ pc' = IF route = "LOGOUT"
                     THEN [pc EXCEPT ![c] = AfterLogout] ELSE pc
       ELSE /\ pc' = [pc EXCEPT ![c] = "Closed"]
            /\ UNCHANGED <<last, resp, selected>>
    /\ UNCHANGED <<mailbox, aux>>

(***************************************************************************)
(* UID FETCH as server.rs answers it (the handle_uid_fetch inlined there)  *)
(***************************************************************************)
\* parts[2].parse().unwrap_or(0): the argument is a UID when it is one
\* number, and 0 when it is a list, a range or `*`
parse_uid(sequence_set) ==
  IF Len(sequence_set) = 1 /\ ~sequence_set[1].range
       /\ sequence_set[1].a # Star
  THEN sequence_set[1].a ELSE 0

\* the lines of the inlined handle_uid_fetch: the header carries the UID
\* in the place of the sequence number
InlineFetchLines(tag, sequence_set, mb, sel) ==
  IF ~sel.some THEN NoFolderSelected(tag)
  ELSE LET fi == get_folder(mb, sel.name) IN
       IF fi = 0 THEN FolderNotFound(tag)
       ELSE LET uid == parse_uid(sequence_set)
                idx == FindUid(mb[fi].emails, uid)
            IN  (IF idx # 0 THEN FetchItem(uid, uid, mb[fi].emails[idx])
                 ELSE <<>>)
                  \o <<Tagged(tag, "OK", "FETCH completed")>>

InlineUidFetch(c, Sets) ==
  \E tag \in Tags(c), sequence_set \in Sets :
    /\ Idle
    /\ pc[c] = "Loop"
    /\ resp' = InlineFetchLines(tag, sequence_set, mailbox, selected[c])
    /\ last' = [Cmd(c, tag, "UID FETCH") EXCEPT !.idset = sequence_set]
    /\ UNCHANGED <<mailbox, selected>>
    /\ UNCHANGED <<pc, aux>>

(***************************************************************************)
(* The client takes the response off the wire (client.rs drains the        *)
(* response stream before it issues the next command).                     *)
(***************************************************************************)
ClientRead ==
  /\ ~Idle
  /\ last' = Cmd0
  /\ resp' = <<>>
  /\ UNCHANGED <<mailbox, selected, pc, aux>>

(***************************************************************************)
(* The client (src/connection.rs, src/client.rs).  Every public method     *)
(* opens a connection of its own, sends its commands one after the other,  *)
(* reading each response before the next command, and logs out.  One       *)
(* action is one command with its response; the commands are answered by   *)
(* the handlers above on the connection Session.                           *)
(***************************************************************************)
\* the connection the client's methods are served on
Session == 1

\* the tag the client puts on its command lines
SessionTag == CHOOSE tag \in Tags(Session) : TRUE

\* impl<M: Send + Sync> ProtonClient<M>
ReadOps ==
  {"list_folders", "fetch_uid", "fetch_unseen", "fetch_all", "fetch_last_n",
   "fetch_date_range", "search"}

\* impl ProtonClient<ReadWrite>
WriteOps ==
  {"move_to_folder", "add_flag", "remove_flag", "archive", "unmark_all_read"}

\* fault: the write methods are implemented for every access mode
CallableInAnyMode(mode, op) == TRUE

\* the methods the type ProtonClient<mode> has
Callable(mode, op) ==
  op \in ReadOps \/ (op \in WriteOps /\ mode = "ReadWrite")

IsMove(op) == op \in {"move_to_folder", "archive"}

\* the search key list a method sends
KeysOf(op, keys) ==
  CASE op = "fetch_unseen" -> <<KUnseen>>
    [] op \in {"fetch_all", "fetch_last_n"} -> <<KAll>>
    [] op = "unmark_all_read" -> <<KSeen>>
    [] op \in {"search", "fetch_date_range"} -> keys
    [] OTHER -> <<>>

\* the method returns `result` (an Err leaves by `?`, without LOGOUT)
Return(c, result) == [c EXCEPT !.step = "done", !.result = result]

\* a command was sent and its tagged response read
Sent(c, keyword, status) ==
  [c EXCEPT !.sent = Append(@, keyword), !.status = status]

\* the status of the tagged line that ends a response
StatusOf(lines) == lines[Len(lines)].kind

\* fault: the answer to STARTTLS is not looked at
check_any(status) == TRUE

\* run_command_and_check_ok
check_ok(status) == status = "OK"

\* the arguments a method takes; the others stay at their defaults
Args(op, folder, to, uid, n, keys, flag) ==
  [op |-> op,
   folder |-> IF op = "list_folders" THEN "" ELSE folder,
   to |-> CASE op = "move_to_folder" -> to
            [] op = "archive" -> "Archive"
            [] OTHER -> "",
   uid |-> IF IsMove(op) \/ op \in {"fetch_uid", "add_flag", "remove_flag"}
           THEN uid ELSE 0,
   n |-> IF op = "fetch_last_n" THEN n ELSE 0,
   keys |-> KeysOf(op, keys),
   flag |-> IF op \in {"add_flag", "remove_flag"} THEN flag ELSE ""]

\* a method is called with its arguments
Call(Ops, Folders, Ns, Queries, Flags, Cap) ==
  \E a \in {Args(op, folder, to, uid, n, keys, flag) :
              op \in Ops, folder \in Folders, to \in Folders, uid \in Uids,
              n \in Ns, keys \in Queries, flag \in Flags} :
    /\ client.step = "idle"
    /\ Callable(client.mode, a.op)
    /\ IsMove(a.op) =>
         TotalMsgs(CopyMailbox(mailbox, Some(a.folder), <<Single(a.uid)>>,
                               a.to)) <= Cap
    /\ client' =
         [Client0 EXCEPT
            !.mode = client.mode, !.op = a.op, !.step = "connect",
            !.folder = a.folder, !.to = a.to, !.uid = a.uid, !.n = a.n,
            !.keys = a.keys, !.flag = a.flag]
    /\ UNCHANGED <<mailbox, selected, last, resp, pc, lock, local>>

\* the caller takes what the method returned
TakeResult ==
  /\ client.step = "done"
  /\ client' = [Client0 EXCEPT !.mode = client.mode]
  /\ UNCHANGED <<mailbox, selected, last, resp, pc, lock, local>>

\* connect: TcpStream::connect; the server starts the connection with
\* nothing selected
TcpConnect ==
  \E ok \in BOOLEAN :
    /\ client.step = "connect"
    /\ client' = IF ok THEN [client EXCEPT !.step = "starttls",
                                            !.stream = "tcp"]
                 ELSE Return(client, "Err(Io)")
    /\ selected' = [selected EXCEPT ![Session] = None]
    /\ UNCHANGED <<mailbox, last, resp, pc, lock, local>>

\* connect: run_command_and_check_ok("STARTTLS")
SendStartTls ==
  \E status \in {"OK", "NO", "BAD"} :
    /\ client.step = "starttls"
    /\ client' = IF check_ok(status)
                 THEN [Sent(client, "STARTTLS", status) EXCEPT
                         !.step = "handshake"]
                 ELSE Return(Sent(client, "STARTTLS", status), "Err(Tls)")
    /\ UNCHANGED <<mailbox, selected, last, resp, pc, lock, local>>

\* connect: ServerName::try_from, then connector.connect
TlsHandshake ==
  \E name_valid \in BOOLEAN, ok \in BOOLEAN :
    /\ client.step = "handshake"
    /\ client' = IF name_valid /\ ok
                 THEN [client EXCEPT !.step = "login", !.stream = "tls"]
                 ELSE Return(client, "Err(Tls)")
    /\ UNCHANGED <<mailbox, selected, last, resp, pc, lock, local>>

\* connect: tls_client.login; the method's first command follows
SendLogin ==
  \E ok \in BOOLEAN :
    /\ client.step = "login"
    /\ client' =
         IF ok
         THEN [Sent(client, "LOGIN", "OK") EXCEPT
                 !.step = IF client.op = "list_folders" THEN "list"
                          ELSE "select"]
         ELSE Return(Sent(client, "LOGIN", "NO"), "Err(Imap)")
    /\ UNCHANGED <<mailbox, selected, last, resp, pc, lock, local>>

\* handle_list: one LIST line per folder, in the order of the Vec
ListNames(mb) == [i \in 1..Len(mb) |-> mb[i].name]

\* list_folders: session.list
SendList ==
  /\ client.step = "list"
  /\ client' = [Sent(client, "LIST", "OK") EXCEPT
                  !.step = "logout", !.names = ListNames(mailbox)]
  /\ UNCHANGED <<mailbox, selected, last, resp, pc, lock, local>>

\* fault: the message is marked deleted before it is copied
MoveNextStoreFirst(step) ==
  CASE step = "select" -> "store"
    [] step = "store" -> "copy"
    [] step = "copy" -> "expunge"
    [] step = "expunge" -> "logout"

\* move_to_folder: the command that follows each command of the method
MoveNext(step) ==
  CASE step = "select" -> "copy"
    [] step = "copy" -> "store"
    [] step = "store" -> "expunge"
    [] step = "expunge" -> "logout"

\* connection::select
SendSelect ==
  LET lines == SelectLines(SessionTag, client.folder, mailbox)
      c == Sent(client, "SELECT", StatusOf(lines))
  IN  /\ client.step = "select"
      /\ selected' =
           [selected EXCEPT ![Session] = handle_select(client.folder, mailbox)]
      /\ client' =
           IF ~EndsOk(lines, SessionTag) THEN Return(c, "Err(Imap)")
           ELSE CASE c.op = "fetch_uid" ->
                       [c EXCEPT !.step = "fetch", !.uids = <<c.uid>>]
                  [] IsMove(c.op) ->
                       [c EXCEPT !.step = MoveNext("select"),
                                 !.uids = <<c.uid>>]
                  [] c.op \in {"add_flag", "remove_flag"} ->
                       [c EXCEPT !.step = "store", !.uids = <<c.uid>>]
                  [] OTHER -> [c EXCEPT !.step = "search"]
      /\ UNCHANGED <<mailbox, last, resp, pc, lock, local>>

\* the sequences that hold every element of S once
Orderings(S) ==
  {q \in [1..Cardinality(S) -> S] : \A x \in S : \E i \in DOMAIN q : q[i] = x}

\* uid_list.sort_unstable()
RECURSIVE SortedUids(_)
SortedUids(S) ==
  IF S = {} THEN <<>>
  ELSE LET least == CHOOSE u \in S : \A v \in S : u <= v
       IN  <<least>> \o SortedUids(S \ {least})

\* uid_list[uid_list.len().saturating_sub(n)..]
LastN(uid_list, n) ==
  LET start == IF Len(uid_list) >= n THEN Len(uid_list) - n ELSE 0
  IN  SubSeq(uid_list, start + 1, Len(uid_list))

\* the Vec a method makes of the HashSet session.uid_search returns: its
\* iteration order is any order; fetch_last_n sorts it and keeps the last n
UidLists(c, found) ==
  IF c.op = "fetch_last_n" THEN {LastN(SortedUids(found), c.n)}
  ELSE Orderings(found)

\* session.uid_search
SendSearch ==
  LET lines == SearchLines(SessionTag, client.keys, mailbox, selected[Session])
      c == Sent(client, "UID SEARCH", StatusOf(lines))
  IN  /\ client.step = "search"
      /\ IF ~EndsOk(lines, SessionTag)
         THEN client' = Return(c, "Err(Imap)")
         ELSE \E uid_list \in UidLists(c, SearchUids(lines)) :
                client' =
                  IF uid_list = <<>> THEN [c EXCEPT !.step = "logout"]
                  ELSE [c EXCEPT
                          !.step = IF c.op = "unmark_all_read"
                                   THEN "store" ELSE "fetch",
                          !.uids = uid_list]
      /\ UNCHANGED <<mailbox, selected, last, resp, pc, lock, local>>

\* Option<..> ordering of Email::date: None sorts below every date
DateKey(date) == IF date.some THEN date.d ELSE -1

\* parse_email fails on a payload that holds no message; the empty payload
\* is that payload
parse_email_ok(body) == body # <<>>

\* the Email parse_email builds
Email(uid, body) == [uid |-> uid, date |-> parse_email_date(body)]

\* fault: the emails are left in fetch order
KeepOrder(emails) == emails

\* emails.sort_by(|a, b| b.date.cmp(&a.date)): stable, latest date first
RECURSIVE SortByDateDesc(_)
SortByDateDesc(emails) ==
  IF emails = <<>> THEN <<>>
  ELSE LET rest == SortByDateDesc(SubSeq(emails, 1, Len(emails) - 1))
           x == emails[Len(emails)]
           ahead(e) == DateKey(e.date) >= DateKey(x.date)
           behind(e) == DateKey(e.date) < DateKey(x.date)
       IN  SelectSeq(rest, ahead) \o <<x>> \o SelectSeq(rest, behind)

\* fetch_single for the next UID: uid_fetch "(BODY.PEEK[])", the first
\* message of the response, parse_email; fetch_by_uids skips a failure,
\* fetch_uid returns it
SendFetch ==
  LET uid == Head(client.uids)
      lines == FetchLines(SessionTag, <<Single(uid)>>, mailbox,
                          selected[Session])
      c == Sent(client, "UID FETCH", StatusOf(lines))
      has_body == EndsOk(lines, SessionTag) /\ Len(lines) > 1
      ok == has_body /\ parse_email_ok(lines[2].bytes)
      emails == IF ok THEN Append(c.emails, Email(uid, lines[2].bytes))
                ELSE c.emails
  IN  /\ client.step = "fetch"
      /\ client' =
           IF c.op = "fetch_uid"
           THEN IF ok THEN [c EXCEPT !.step = "logout", !.uids = <<>>,
                                     !.emails = emails]
                ELSE Return(c, IF has_body THEN "Err(Parse)" ELSE "Err(Imap)")
           ELSE IF Tail(c.uids) # <<>>
                THEN [c EXCEPT !.uids = Tail(@), !.emails = emails]
                ELSE [c EXCEPT
                        !.step = "logout", !.uids = <<>>,
                        !.emails = IF c.op = "fetch_last_n"
                                   THEN SortByDateDesc(emails) ELSE emails]
      /\ UNCHANGED <<mailbox, selected, last, resp, pc, lock, local>>

\* move_to_folder: session.uid_copy
SendCopy ==
  LET lines == CopyLines(SessionTag, mailbox, selected[Session], client.to)
      c == Sent(client, "UID COPY", StatusOf(lines))
  IN  /\ client.step = "copy"
      /\ mailbox' = CopyMailbox(mailbox, selected[Session],
                                <<Single(client.uid)>>, client.to)
      /\ client' = IF EndsOk(lines, SessionTag)
                   THEN [c EXCEPT !.step = MoveNext("copy")]
                   ELSE Return(c, "Err(Imap)")
      /\ UNCHANGED <<selected, last, resp, pc, lock, local>>

\* the id-set "u1,u2,..." of a UID list
UidSet(uids) == [i \in 1..Len(uids) |-> Single(uids[i])]

\* session.uid_store with the method's flag argument
SendStore ==
  LET kind == IF client.op \in {"remove_flag", "unmark_all_read"}
              THEN "Remove" ELSE "Add"
      flags == CASE IsMove(client.op) -> {"Deleted"}
                 [] client.op = "unmark_all_read" -> {"Seen"}
                 [] OTHER -> {client.flag}
      lines == StoreLines(SessionTag, mailbox, selected[Session],
                          UidSet(client.uids), kind, flags, FALSE)
      c == Sent(client, "UID STORE", StatusOf(lines))
  IN  /\ client.step = "store"
      /\ mailbox' = StoreMailbox(mailbox, selected[Session],
                                 UidSet(client.uids), kind, flags)
      /\ client' = IF ~EndsOk(lines, SessionTag) THEN Return(c, "Err(Imap)")
                   ELSE [c EXCEPT
                           !.step = IF IsMove(c.op) THEN MoveNext("store")
                                    ELSE "logout",
                           !.uids = IF IsMove(c.op) THEN @ ELSE <<>>]
      /\ UNCHANGED <<selected, last, resp, pc, lock, local>>

\* move_to_folder: session.expunge
SendExpunge ==
  LET lines == ExpungeLines(SessionTag, mailbox, selected[Session])
      c == Sent(client, "EXPUNGE", StatusOf(lines))
  IN  /\ client.step = "expunge"
      /\ mailbox' = ExpungeMailbox(mailbox, selected[Session])
      /\ client' = IF EndsOk(lines, SessionTag)
                   THEN [c EXCEPT !.step = MoveNext("expunge")]
                   ELSE Return(c, "Err(Imap)")
      /\ UNCHANGED <<selected, last, resp, pc, lock, local>>

\* session.logout().await.ok(), then Ok(..); fetch_date_range sorts what
\* search returned
SendLogout ==
  LET c == Sent(client, "LOGOUT", "OK") IN
  /\ client.step = "logout"
  /\ client' =
       [Return(c, "Ok") EXCEPT
          !.emails = IF c.op = "fetch_date_range"
                     THEN SortByDateDesc(@) ELSE @]
  /\ selected' = [selected EXCEPT ![Session] = None]
  /\ UNCHANGED <<mailbox, last, resp, pc, lock, local>>

\* the connection breaks while a command of the method is under way: the
\* next read or write on the session fails and the method leaves by `?`
Drop ==
  /\ client.step \in {"select", "copy", "store", "expunge"}
  /\ client' = Return(client, "Err(Imap)")
  /\ selected' = [selected EXCEPT ![Session] = None]
  /\ UNCHANGED <<mailbox, last, resp, pc, lock, local>>

(***************************************************************************)
(* Initial state and specification                                         *)
(***************************************************************************)
\* every connection has been upgraded and sits in its command loop with
\* nothing selected; no command is on the wire and no client call runs
Established ==
  /\ selected = [c \in Conns |-> None]
  /\ last = Cmd0
  /\ resp = <<>>
  /\ pc = [c \in Conns |-> "Loop"]
  /\ lock = 0
  /\ local = [c \in Conns |-> [Local0 EXCEPT !.tls = TRUE]]
  /\ client = Client0

\* MailboxBuilder: INBOX holds n messages with UIDs 1..n, the odd ones
\* seen, Archive is empty
InitMailbox(n) ==
  <<Folder("INBOX",
           [i \in 1..n |-> TestEmail(i, i % 2 = 1, FALSE, RawOfUid(i))]),
    Folder("Archive", <<>>)>>

Init ==
  /\ \E n \in 0..MaxUid : mailbox = InitMailbox(n)
  /\ Established

\* every command, on every connection
Next ==
  \/ \E c \in Conns :
       \/ Select(c, Names)
       \/ UidSearch(c, MainCriteria)
       \/ UidFetch(c, MainIdSets)
       \/ UidStore(c, MainIdSets, {"Add", "Remove"}, {{"Deleted"}}, {FALSE})
       \/ UidCopy(c, MainIdSets, MaxMsgs)
       \/ Expunge(c)
  \/ ClientRead

Spec == Init /\ [][Next]_vars

(***************************************************************************)
(* Marking and expunging: INBOX is built with up to MaxLen messages, any   *)
(* connection marks and unmarks them and expunges.                         *)
(***************************************************************************)
InitExpunge ==
  /\ \E n \in 0..MaxLen : mailbox = InitMailbox(n)
  /\ Established

NextExpunge ==
  \/ \E c \in Conns :
       \/ Select(c, Names)
       \/ UidStore(c, ExpungeIdSets, {"Add", "Remove"}, {{"Deleted"}}, {TRUE})
       \/ Expunge(c)
  \/ ClientRead

SpecExpunge == InitExpunge /\ [][NextExpunge]_vars

(***************************************************************************)
(* Copying: a connection selects a folder, marks a message and copies      *)
(* id-sets of one or two messages into either folder.                      *)
(***************************************************************************)
NextCopy ==
  \/ \E c \in Conns :
       \/ Select(c, {"INBOX", "Archive"})
       \/ UidStore(c, {<<Single(1)>>}, {"Add"}, {{"Deleted"}}, {TRUE})
       \/ UidCopy(c, CopyIdSets, MaxCopyMsgs)
  \/ ClientRead

SpecCopy == Init /\ [][NextCopy]_vars

(***************************************************************************)
(* Reading a mailbox whose payloads range over AllRaws: INBOX holds one    *)
(* or two messages, the first with any payload.                            *)
(***************************************************************************)
InitRead ==
  /\ \E raw \in AllRaws, seen \in BOOLEAN, n \in 1..2 :
       mailbox =
         <<Folder("INBOX",
                  SubSeq(<<TestEmail(1, seen, FALSE, raw),
                           TestEmail(2, FALSE, FALSE, RawDated(MaxDay))>>,
                         1, n)),
           Folder("Archive", <<>>)>>
  /\ Established

NextRead ==
  \/ \E c \in Conns :
       \/ Select(c, Names)
       \/ UidSearch(c, AllCriteria)
       \/ UidFetch(c, IdSets)
  \/ ClientRead

SpecRead == InitRead /\ [][NextRead]_vars

(***************************************************************************)
(* Marking messages read and unread while messages are copied: any         *)
(* connection stores the Seen flag, copies single messages and searches    *)
(* for the unseen ones.                                                    *)
(***************************************************************************)
\* the id-sets stored in SpecSeen
SeenIdSets == {<<Single(v)>> : v \in Uids} \cup {<<Range(1, Star)>>}

NextSeen ==
  \/ \E c \in Conns :
       \/ Select(c, {"INBOX", "Archive"})
       \/ UidStore(c, SeenIdSets, StoreKinds, {{"Seen"}, {}}, {FALSE})
       \/ UidCopy(c, {<<Single(v)>> : v \in Uids}, MaxMsgs)
       \/ UidSearch(c, MainCriteria)
  \/ ClientRead

SpecSeen == Init /\ [][NextSeen]_vars

(***************************************************************************)
(* One client, read-only or read-write, calling its methods one after the  *)
(* other on a mailbox no other client touches.  Archive starts empty or    *)
(* with a message of its own that carries UID 1.                           *)
(***************************************************************************)
InitClient ==
  /\ \E n \in 0..MaxUid, a \in 0..1 :
       mailbox =
         <<InitMailbox(n)[1],
           Folder("Archive",
                  SubSeq(<<TestEmail(1, TRUE, FALSE, RawNoDate)>>, 1, a))>>
  /\ selected = [c \in Conns |-> None]
  /\ last = Cmd0
  /\ resp = <<>>
  /\ pc = [c \in Conns |-> "Loop"]
  /\ lock = 0
  /\ local = [c \in Conns |-> [Local0 EXCEPT !.tls = TRUE]]
  /\ \E mode \in {"ReadOnly", "ReadWrite"} :
       client = [Client0 EXCEPT !.mode = mode]

\* the search queries and the count the client passes in SpecClient
ClientQueries == {<<KSeen>>, <<KSince(1), KBefore(MaxDay)>>}

NextClient ==
  \/ Call(ReadOps \cup WriteOps, Names, {1}, ClientQueries, {"Seen"},
          MaxClientMsgs)
  \/ TcpConnect
  \/ SendStartTls
  \/ TlsHandshake
  \/ SendLogin
  \/ SendList
  \/ SendSelect
  \/ SendSearch
  \/ SendFetch
  \/ SendCopy
  \/ SendStore
  \/ SendExpunge
  \/ SendLogout
  \/ TakeResult

SpecClient == InitClient /\ [][NextClient]_vars

(***************************************************************************)
(* A read-only client calling fetch_last_n on an INBOX of up to MaxFetch   *)
(* messages, stored in ascending or descending UID order, whose payloads   *)
(* are dated, undated or not parseable.                                    *)
(***************************************************************************)
FetchRaws == {RawDated(d) : d \in Days} \cup {RawNoDate, RawEmpty}

InitFetch ==
  /\ \E k \in 0..MaxFetch, descending \in BOOLEAN :
       \E raws \in [1..k -> FetchRaws] :
         mailbox =
           <<Folder("INBOX",
                    [i \in 1..k |->
                       TestEmail(IF descending THEN k + 1 - i ELSE i,
                                 i % 2 = 1, FALSE, raws[i])]),
             Folder("Archive", <<>>)>>
  /\ Established

NextFetch ==
  \/ Call({"fetch_last_n"}, {"INBOX"}, 0..(MaxFetch + 1), {<<>>}, {"Seen"},
          MaxFetch)
  \/ TcpConnect
  \/ SendStartTls
  \/ TlsHandshake
  \/ SendLogin
  \/ SendSelect
  \/ SendSearch
  \/ SendFetch
  \/ SendLogout
  \/ TakeResult

SpecFetch == InitFetch /\ [][NextFetch]_vars

(***************************************************************************)
(* Connecting: a client calls list_folders and fetch_uid; the server may   *)
(* reject STARTTLS, the TLS handshake and the login may fail.              *)
(***************************************************************************)
NextConnect ==
  \/ Call({"list_folders", "fetch_uid"}, Names, {0}, {<<>>}, {"Seen"}, MaxMsgs)
  \/ TcpConnect
  \/ SendStartTls
  \/ TlsHandshake
  \/ SendLogin
  \/ SendList
  \/ SendSelect
  \/ SendFetch
  \/ SendLogout
  \/ TakeResult

SpecConnect == Init /\ [][NextConnect]_vars

(***************************************************************************)
(* The connection tasks from accept to return: every connection starts at  *)
(* its greeting, and the clients send any first line, then log in, select, *)
(* mark, send an unknown word, log out or hang up.                         *)
(***************************************************************************)
InitServer ==
  /\ \E n \in 0..MaxUid : mailbox = InitMailbox(n)
  /\ selected = [c \in Conns |-> None]
  /\ last = Cmd0
  /\ resp = <<>>
  /\ pc = [c \in Conns |-> "Greeting"]
  /\ lock = 0
  /\ local = [c \in Conns |-> Local0]
  /\ client = Client0

NextServer ==
  \/ \E c \in Conns :
       \/ Greet(c)
       \/ FirstLineUnreadable(c)
       \/ FirstLine(c)
       \/ TlsAccept(c)
       \/ Login(c)
       \/ Select(c, {"INBOX"})
       \/ UidStore(c, {<<Single(1)>>}, {"Add"}, {{"Deleted"}}, {TRUE})
       \/ Logout(c)
       \/ UnknownCommand(c)
       \/ Disconnect(c)
  \/ ClientRead

SpecServer == InitServer /\ [][NextServer]_vars

(***************************************************************************)
(* Write commands of several connections interleaved at the mutex: every   *)
(* connection is in its loop, with INBOX selected or nothing selected.     *)
(***************************************************************************)
InitLock ==
  /\ \E n \in 0..MaxUid : mailbox = InitMailbox(n)
  /\ selected \in [Conns -> {None, Some("INBOX")}]
  /\ last = Cmd0
  /\ resp = <<>>
  /\ pc = [c \in Conns |-> "Loop"]
  /\ lock = 0
  /\ local = [c \in Conns |-> [Local0 EXCEPT !.tls = TRUE]]
  /\ client = Client0

NextLock ==
  \E c \in Conns :
    \/ ReadWriteCommand(c, MaxMsgs)
    \/ Acquire(c, "LockCheck", "Check")
    \/ CheckExists(c)
    \/ Acquire(c, "LockMutate", "Mutate")
    \/ Mutate(c)
    \/ WriteLine(c)

SpecLock == InitLock /\ [][NextLock]_vars

(***************************************************************************)
(* Write commands on several messages, interleaved iteration by iteration  *)
(* with each other and with readers: every connection is in its loop with  *)
(* INBOX selected.                                                         *)
(***************************************************************************)
InitAtomic ==
  /\ \E n \in 0..MaxUid : mailbox = InitMailbox(n)
  /\ selected = [c \in Conns |-> Some("INBOX")]
  /\ last = Cmd0
  /\ resp = <<>>
  /\ pc = [c \in Conns |-> "Loop"]
  /\ lock = 0
  /\ local = [c \in Conns |-> [Local0 EXCEPT !.tls = TRUE]]
  /\ client = Client0

NextAtomic ==
  \E c \in Conns :
    \/ ReadAtomicCommand(c, MaxCopyMsgs)
    \/ Acquire(c, "LockCheck", "Check")
    \/ CheckExists(c)
    \/ Acquire(c, "LockMutate", "Mutate")
    \/ BeginMutate(c)
    \/ MutateStep(c)
    \/ EndMutate(c)
    \/ SnapshotRead(c)
    \/ WriteOut(c)

SpecAtomic == InitAtomic /\ [][NextAtomic]_vars

(***************************************************************************)
(* Commands that are turned away: every command on every connection, with  *)
(* folders and destinations that do not exist, with and without a          *)
(* selection, and a command word the loop does not know.                   *)
(***************************************************************************)
NextReject ==
  \/ \E c \in Conns :
       \/ Select(c, Names)
       \/ UidSearch(c, {<<KAll>>})
       \/ UidFetch(c, {<<Single(1)>>})
       \/ UidStore(c, {<<Single(1)>>}, {"Add"}, {{"Deleted"}}, {FALSE})
       \/ UidCopy(c, {<<Single(1)>>}, MaxMsgs)
       \/ Expunge(c)
       \/ UnknownCommand(c)
  \/ ClientRead

SpecReject == Init /\ [][NextReject]_vars

(***************************************************************************)
(* The command loop as server.rs dispatches it: any command word on any    *)
(* connection.                                                             *)
(***************************************************************************)
NextDispatch ==
  \/ \E c \in Conns :
       \/ Dispatch(c, LoopWords)
       \/ ShortLine(c, {""} \cup Tags(c))
  \/ ClientRead

SpecDispatch == Init /\ [][NextDispatch]_vars

(***************************************************************************)
(* handle_uid_copy as its callers may call it: selected_folder is any      *)
(* Option<&str>, also the name of a folder the mailbox does not hold.      *)
(***************************************************************************)
InitCopyCall ==
  /\ \E n \in 0..MaxUid : mailbox = InitMailbox(n)
  /\ selected \in [Conns -> {None, Some("INBOX"), Some("Gone")}]
  /\ last = Cmd0
  /\ resp = <<>>
  /\ pc = [c \in Conns |-> "Loop"]
  /\ lock = 0
  /\ local = [c \in Conns |-> [Local0 EXCEPT !.tls = TRUE]]
  /\ client = Client0

NextCopyCall ==
  \/ \E c \in Conns : UidCopy(c, CopyIdSets, MaxCopyMsgs)
  \/ ClientRead

SpecCopyCall == InitCopyCall /\ [][NextCopyCall]_vars

(***************************************************************************)
(* Searching with criteria of every shape: leaves, a list of two keys, an  *)
(* empty list, And, Or and Not, nested, and a key the evaluator does not   *)
(* know (Flagged); the folders hold messages seen and unseen, dated and    *)
(* undated, and, after a copy, messages sharing a UID.                     *)
(***************************************************************************)
BoolCriteria ==
  {<<>>, <<KAll>>, <<KSeen>>, <<KUnseen>>, <<KSeen, KSince(1)>>,
   <<KNot(KSeen)>>, <<KOr(KSeen, KBefore(1))>>,
   <<KAnd(<<KUnseen, KSince(1)>>)>>, <<KAnd(<<>>)>>,
   <<KNot(KOr(KSeen, KNot(KSince(MaxDay))))>>,
   <<KFlagged>>, <<KNot(KFlagged)>>, <<KFlagged, KSeen>>,
   <<KAnd(<<KFlagged, KUnseen>>)>>, <<KOr(KFlagged, KSeen)>>}

NextSearch ==
  \/ \E c \in Conns :
       \/ Select(c, {"INBOX", "Archive"})
       \/ UidCopy(c, {<<Single(1)>>}, MaxMsgs)
       \/ UidSearch(c, BoolCriteria)
  \/ ClientRead

SpecSearch == Init /\ [][NextSearch]_vars

(***************************************************************************)
(* Storing flags: every connection selects INBOX, stores any flags with    *)
(* any operation on one message, on a UID no message has, on a UID named   *)
(* twice and on overlapping ranges, silently or not, and copies a message. *)
(***************************************************************************)
\* the id-sets stored in SpecStore
StoreIdSets ==
  {<<Single(1)>>, <<Single(MaxUid + 1)>>, <<Single(1), Single(1)>>,
   <<Range(1, 2), Range(2, Star)>>, <<Range(Star, 1)>>}

NextStore ==
  \/ \E c \in Conns :
       \/ Select(c, {"INBOX"})
       \/ UidStore(c, StoreIdSets, StoreKinds, FlagSets, {FALSE, TRUE})
       \/ UidCopy(c, {<<Single(1)>>}, MaxMsgs)
  \/ ClientRead

SpecStore == Init /\ [][NextStore]_vars

(***************************************************************************)
(* UIDNEXT: INBOX is built with up to two messages whose UIDs are small or *)
(* at the top of u32; every connection selects a folder.                   *)
(***************************************************************************)
\* the UIDs the builder is given
EdgeUids == {1, 2, U32Max - 1, U32Max}

InitUidNext ==
  /\ \E a, b \in EdgeUids, n \in 0..2 :
       /\ a # b
       /\ mailbox =
            <<Folder("INBOX",
                     SubSeq(<<TestEmail(a, FALSE, FALSE, RawOfUid(1)),
                              TestEmail(b, TRUE, FALSE, RawOfUid(2))>>, 1, n)),
              Folder("Archive", <<>>)>>
  /\ Established

NextUidNext ==
  \/ \E c \in Conns : Select(c, Names)
  \/ ClientRead

SpecUidNext == InitUidNext /\ [][NextUidNext]_vars

(***************************************************************************)
(* Fetching: INBOX is built in ascending or descending UID order; every    *)
(* connection selects it and fetches through the handler of                *)
(* handlers/uid_fetch.rs or through the one inlined in server.rs.          *)
(***************************************************************************)
\* the id-sets fetched in SpecFetchCmd
FetchIdSets ==
  {<<Single(v)>> : v \in 1..(MaxUid + 1)}
    \cup {<<Single(MaxUid), Single(1)>>, <<Range(1, Star)>>}

InitFetchCmd ==
  /\ \E k \in 0..MaxUid, descending \in BOOLEAN :
       mailbox =
         <<Folder("INBOX",
                  [i \in 1..k |->
                     TestEmail(IF descending THEN k + 1 - i ELSE i,
                               i % 2 = 1, FALSE, RawOfUid(i))]),
           Folder("Archive", <<>>)>>
  /\ Established

NextFetchCmd ==
  \/ \E c \in Conns :
       \/ Select(c, {"INBOX", "Archive"})
       \/ UidFetch(c, FetchIdSets)
       \/ InlineUidFetch(c, FetchIdSets)
  \/ ClientRead

SpecFetchCmd == InitFetchCmd /\ [][NextFetchCmd]_vars

(***************************************************************************)
(* Names in any case: every connection selects INBOX and Archive under     *)
(* several spellings and then searches, fetches, stores, copies and        *)
(* expunges.                                                               *)
(***************************************************************************)
\* the spellings the clients of SpecCase select
CaseNames == {"INBOX", "inbox", "Inbox", "Archive", "archive"}

NextCase ==
  \/ \E c \in Conns :
       \/ Select(c, CaseNames)
       \/ UidSearch(c, {<<KAll>>})
       \/ UidFetch(c, {<<Single(1)>>})
       \/ UidStore(c, {<<Single(1)>>}, {"Add"}, {{"Deleted"}}, {FALSE})
       \/ UidCopy(c, {<<Single(1)>>}, MaxMsgs)
       \/ Expunge(c)
  \/ ClientRead

SpecCase == Init /\ [][NextCase]_vars

(***************************************************************************)
(* Every command of the loop on every connection: the commands that read   *)
(* and the commands that write.                                            *)
(***************************************************************************)
NextFrame ==
  \/ \E c \in Conns :
       \/ Capability(c)
       \/ Noop(c)
       \/ Login(c)
       \/ List(c)
       \/ Select(c, Names)
       \/ UidSearch(c, {<<KAll>>, <<KUnseen>>})
       \/ UidFetch(c, {<<Single(1)>>, <<Single(2)>>})
       \/ Logout(c)
       \/ UidStore(c, {<<Single(1)>>}, {"Add"}, {{"Deleted"}}, {FALSE})
       \/ UidCopy(c, {<<Single(2)>>}, MaxMsgs)
       \/ Expunge(c)
  \/ ClientRead

SpecFrame == Init /\ [][NextFrame]_vars

(***************************************************************************)
(* Moving: a read-write client moves a message between folders, INBOX      *)
(* holds messages that are marked deleted or not, Archive may hold a       *)
(* message of its own with UID 1; the connection may break at any command. *)
(***************************************************************************)
InitMove ==
  /\ \E n \in 0..MaxUid, d \in SUBSET (1..MaxUid), a \in 0..1 :
       mailbox =
         <<Folder("INBOX",
                  [i \in 1..n |->
                     TestEmail(i, i % 2 = 1, i \in d, RawOfUid(i))]),
           Folder("Archive",
                  SubSeq(<<TestEmail(1, TRUE, FALSE, RawNoDate)>>, 1, a))>>
  /\ selected = [c \in Conns |-> None]
  /\ last = Cmd0
  /\ resp = <<>>
  /\ pc = [c \in Conns |-> "Loop"]
  /\ lock = 0
  /\ local = [c \in Conns |-> [Local0 EXCEPT !.tls = TRUE]]
  /\ client = [Client0 EXCEPT !.mode = "ReadWrite"]

NextMove ==
  \/ Call({"move_to_folder"}, Names, {1}, {<<>>}, {"Seen"}, MaxMsgs)
  \/ TcpConnect
  \/ SendStartTls
  \/ TlsHandshake
  \/ SendLogin
  \/ SendSelect
  \/ SendCopy
  \/ SendStore
  \/ SendExpunge
  \/ SendLogout
  \/ Drop
  \/ TakeResult

SpecMove == InitMove /\ [][NextMove]_vars

(***************************************************************************)
(* Id-sets: every connection selects INBOX and fetches, copies to Archive  *)
(* and stores with id-sets made of single UIDs, of ranges, and of ranges   *)
(* that end in `*`.                                                        *)
(***************************************************************************)
\* the id-sets sent in SpecIdSet
SharedIdSets ==
  {<<Single(1)>>, <<Single(2), Single(1)>>, <<Range(1, 2)>>,
   <<Range(1, Star)>>}

NextIdSet ==
  \/ \E c \in Conns :
       \/ Select(c, {"INBOX"})
       \/ UidFetch(c, SharedIdSets)
       \/ UidCopy(c, SharedIdSets, MaxMsgs)
       \/ UidStore(c, SharedIdSets, {"Add"}, {{"Seen"}}, {FALSE})
  \/ ClientRead

SpecIdSet == Init /\ [][NextIdSet]_vars

(***************************************************************************)
(* Several connections from the greeting on, each with its own             *)
(* selected_folder (server.rs, handle_connection): SELECT and the write    *)
(* commands on any of them, in any order.  Every connection has sent its   *)
(* STARTTLS and has its TLS handshake ahead.                               *)
(***************************************************************************)
InitSession ==
  /\ \E n \in 0..MaxUid : mailbox = InitMailbox(n)
  /\ selected = [c \in Conns |-> None]
  /\ last = Cmd0
  /\ resp = <<>>
  /\ pc = [c \in Conns |-> "Upgrading"]
  /\ lock = 0
  /\ local = [c \in Conns |-> Local0]
  /\ client = Client0

NextSession ==
  \/ \E c \in Conns :
       \/ TlsAccept(c)
       \/ Select(c, Names)
       \/ UidStore(c, {<<Single(1)>>}, {"Add"}, {{"Deleted"}}, {TRUE})
       \/ UidCopy(c, {<<Single(1)>>}, MaxMsgs)
       \/ Expunge(c)
       \/ Logout(c)
  \/ ClientRead

SpecSession == InitSession /\ [][NextSession]_vars

(***************************************************************************)
(* Properties                                                              *)
(***************************************************************************)
\* index of the folder the command in `cmd` was evaluated on, 0 for none
CmdFolder(mb, cmd) == IF cmd.sel.some THEN get_folder(mb, cmd.sel.name) ELSE 0

\* the response is one tagged line with the given status
OnlyTagged(lines, tag, status) ==
  Len(lines) = 1 /\ lines[1].tag = tag /\ lines[1].kind = status

\* every folder but number fi is the same in mb1 and mb2, fi keeps its name
SameExcept(mb1, mb2, fi) ==
  /\ Len(mb1) = Len(mb2)
  /\ \A j \in 1..Len(mb1) :
       IF j = fi THEN mb1[j].name = mb2[j].name ELSE mb1[j] = mb2[j]

UidsDistinct(emails) ==
  \A i, j \in 1..Len(emails) : emails[i].uid = emails[j].uid => i = j

\* C1: from a mailbox with pairwise distinct UIDs per folder, after any
\* sequence of UID COPY, UID STORE and EXPUNGE commands the UIDs inside
\* every folder are still pairwise distinct.
C1_UidsStayDistinct ==
  \A f \in 1..Len(mailbox) : UidsDistinct(mailbox[f].emails)

\* a SELECT of a missing folder, issued while a folder is selected
SelectMissingStep ==
  /\ last'.cmd = "SELECT"
  /\ last'.sel.some
  /\ get_folder(mailbox, last'.name) = 0

ExpungeStep == last'.cmd = "EXPUNGE" /\ CmdFolder(mailbox, last') # 0

NotDeleted(e) == ~e.deleted

\* C3: EXPUNGE on the selected folder F removes exactly the messages whose
\* deleted flag is set: F becomes its previous sequence filtered to
\* deleted = false, in the same order and with uid, seen and raw kept,
\* numbered 1..len(F), and every other folder is unchanged.
C3_ExpungeRemovesExactlyDeleted ==
  [][ExpungeStep =>
       LET fi == CmdFolder(mailbox, last')
           old == mailbox[fi].emails
           new == mailbox'[fi].emails
       IN  /\ new = SelectSeq(old, NotDeleted)
           /\ DOMAIN new = 1..Len(new)
           /\ \A i \in 1..Len(new) : ~new[i].deleted
           /\ SameExcept(mailbox, mailbox', fi)]_vars

\* EXPUNGE removed the first and the last of three messages and kept the
\* middle one
C3_Witness ==
  /\ last.cmd = "EXPUNGE"
  /\ Len(resp) = 3
  /\ CmdFolder(mailbox, last) # 0
  /\ Len(mailbox[CmdFolder(mailbox, last)].emails) = 1
  /\ mailbox[CmdFolder(mailbox, last)].emails[1].uid = 2

\* the numbers of the "* n EXPUNGE" lines of a response, in order
RECURSIVE NoticeNumbers(_)
NoticeNumbers(lines) ==
  IF lines = <<>> THEN <<>>
  ELSE (IF Head(lines).kind = "EXPUNGE" THEN <<Head(lines).n>> ELSE <<>>)
         \o NoticeNumbers(Tail(lines))

\* removing the deleted messages one at a time front to back, reporting
\* the live 1-based position of each at the moment it is removed
RECURSIVE LivePositions(_, _)
LivePositions(emails, pos) ==
  IF emails = <<>> THEN <<>>
  ELSE IF Head(emails).deleted
       THEN <<pos>> \o LivePositions(Tail(emails), pos)
       ELSE LivePositions(Tail(emails), pos + 1)

\* the 1-based positions of the deleted messages
DeletedPositions(emails) == {i \in 1..Len(emails) : emails[i].deleted}

\* the position of the k-th deleted message, k counted from 0
KthDeleted(emails, k) ==
  CHOOSE i \in DeletedPositions(emails) :
    Cardinality({j \in DeletedPositions(emails) : j < i}) = k

\* C4: EXPUNGE emits one "* n EXPUNGE" per removed message, ascending by
\* original index; the k-th removed message (k from 0) at 0-based index i
\* is reported as n = i + 1 - k, which is its live position when the
\* deleted messages are removed one at a time front to back.
C4_ExpungeNoticesLive ==
  [][ExpungeStep =>
       LET old == mailbox[CmdFolder(mailbox, last')].emails
           ns == NoticeNumbers(resp')
       IN  /\ Len(ns) = Cardinality(DeletedPositions(old))
           /\ Len(resp') = Len(ns) + 1
           /\ \A k \in 0..(Len(ns) - 1) :
                ns[k + 1] = (KthDeleted(old, k) - 1) + 1 - k
           /\ ns = LivePositions(old, 1)
           /\ EndsOk(resp', last'.tag)]_vars

\* deleted at positions 1 and 3 of 3 was reported as 1 then 2
C4_Witness ==
  /\ last.cmd = "EXPUNGE"
  /\ NoticeNumbers(resp) = <<1, 2>>

\* a UID COPY that was answered OK
CopyOkStep == last'.cmd = "UID COPY" /\ EndsOk(resp', last'.tag)

\* uid lies in the id-set, '*' standing for the largest UID of the folder
InIdSet(uid, idset, max_uid) ==
  \E i \in 1..Len(idset) :
    LET a == IF idset[i].a = Star THEN max_uid ELSE idset[i].a
        b == IF idset[i].b = Star THEN max_uid ELSE idset[i].b
    IN  (a <= uid /\ uid <= b) \/ (b <= uid /\ uid <= a)

\* uid is one of the single values of the id-set
IsSingleOf(uid, idset) ==
  \E i \in 1..Len(idset) : ~idset[i].range /\ idset[i].a = uid

NeedsSelection == {"UID SEARCH", "UID FETCH", "UID STORE", "UID COPY", "EXPUNGE"}

\* C6: UID SEARCH, UID FETCH, UID STORE, UID COPY and EXPUNGE issued with
\* no folder selected are answered with one tagged BAD and no untagged
\* line, leave the mailbox unchanged and leave the connection without a
\* selected folder.
C6_NoSelectionIsBad ==
  [][(last'.cmd \in NeedsSelection /\ ~selected[last'.conn].some) =>
       /\ OnlyTagged(resp', last'.tag, "BAD")
       /\ mailbox' = mailbox
       /\ selected' = selected]_vars

\* EXPUNGE was answered BAD on a connection without a selected folder
\* while the mailbox holds a message marked deleted
C6_Witness ==
  /\ last.cmd = "EXPUNGE"
  /\ ~last.sel.some
  /\ OnlyTagged(resp, last.tag, "BAD")
  /\ \E f \in 1..Len(mailbox) : DeletedPositions(mailbox[f].emails) # {}

\* the numbers of the "* n EXISTS" lines of a response
ExistsNumbers(lines) ==
  {lines[i].n : i \in {j \in 1..Len(lines) : lines[j].kind = "EXISTS"}}

\* C7: the n of the "* n EXISTS" line of a successful SELECT is the number
\* of messages the folder holds in the mailbox the SELECT was evaluated
\* on, after any prior STORE, COPY and EXPUNGE.
C7_ExistsIsLiveCount ==
  (last.cmd = "SELECT" /\ EndsOk(resp, last.tag)) =>
    /\ get_folder(mailbox, last.name) # 0
    /\ ExistsNumbers(resp) =
         {Len(mailbox[get_folder(mailbox, last.name)].emails)}

\* SELECT reported a folder that has grown by copies and holds a message
\* marked deleted
C7_Witness ==
  /\ last.cmd = "SELECT"
  /\ ExistsNumbers(resp) = {MaxUid + 1}
  /\ DeletedPositions(mailbox[get_folder(mailbox, last.name)].emails) # {}

\* C8: for every message UID FETCH emits, the N of the literal marker {N}
\* is the number of payload bytes written between the marker line and the
\* closing ")" line, and the payload is the message's raw bytes unmodified.
C8_LiteralLengthExact ==
  last.cmd = "UID FETCH" =>
    \A i \in 1..Len(resp) :
      resp[i].kind = "FETCH" =>
        /\ i + 2 <= Len(resp)
        /\ resp[i + 1].kind = "LITERAL"
        /\ resp[i + 2].kind = "CLOSE"
        /\ resp[i].lit = ByteLen(resp[i + 1].bytes)
        /\ LET emails == mailbox[CmdFolder(mailbox, last)].emails IN
             /\ resp[i].n \in 1..Len(emails)
             /\ emails[resp[i].n].uid = resp[i].uid
             /\ resp[i + 1].bytes = emails[resp[i].n].raw

\* a payload holding CRLF and ")" bytes was fetched with its exact length
C8_Witness ==
  /\ last.cmd = "UID FETCH"
  /\ \E i \in 1..Len(resp) :
       /\ resp[i].kind = "LITERAL"
       /\ resp[i].bytes = RawTricky
       /\ resp[i - 1].lit = 6

\* a UID SEARCH of one SINCE or BEFORE key that was evaluated
DateSearch ==
  /\ last.cmd = "UID SEARCH"
  /\ EndsOk(resp, last.tag)
  /\ Len(last.keys) = 1
  /\ last.keys[1].op \in {"Since", "Before"}

DateOnlySearch ==
  /\ last.cmd = "UID SEARCH"
  /\ EndsOk(resp, last.tag)
  /\ last.keys # <<>>
  /\ \A k \in 1..Len(last.keys) : last.keys[k].op \in {"Since", "Before"}

UnseenUids(emails) == {emails[i].uid : i \in {j \in 1..Len(emails) : ~emails[j].seen}}

\* the UIDs of a folder
FolderUids(emails) == {emails[i].uid : i \in 1..Len(emails)}

\* a UID STORE of the Seen flag that was answered OK
SeenStoreStep(kind) ==
  /\ last'.cmd = "UID STORE"
  /\ last'.kind = kind
  /\ "Seen" \in last'.flags
  /\ EndsOk(resp', last'.tag)

\* C11: once a UID STORE adding Seen to UID u of folder F is answered OK,
\* every later UID SEARCH UNSEEN on F, on any connection, lists no u until
\* a later STORE removes or replaces the flag; after a STORE removing Seen
\* from u a later UID SEARCH UNSEEN on F lists u.  Step by step: the STORE
\* leaves u out of (in) the unseen UIDs of F, UID SEARCH UNSEEN answers
\* exactly the unseen UIDs of the selected folder, and no step other than
\* a STORE of the opposite kind moves u into (out of) the unseen UIDs of F.
C11_SeenStoreDecidesUnseenSearch ==
  [][LET fi == CmdFolder(mailbox, last') IN
     /\ SeenStoreStep("Add") =>
          \A u \in FolderUids(mailbox[fi].emails) :
            InIdSet(u, last'.idset, MaxOfUids(mailbox[fi].emails))
              => u \notin UnseenUids(mailbox'[fi].emails)
     /\ SeenStoreStep("Remove") =>
          \A u \in FolderUids(mailbox[fi].emails) :
            InIdSet(u, last'.idset, MaxOfUids(mailbox[fi].emails))
              => u \in UnseenUids(mailbox'[fi].emails)
     /\ (last'.cmd = "UID SEARCH" /\ last'.keys = <<KUnseen>>
           /\ EndsOk(resp', last'.tag)) =>
          SearchUids(resp') = UnseenUids(mailbox[fi].emails)
     /\ \A f \in 1..Len(mailbox), u \in Uids :
          /\ (/\ u \in FolderUids(mailbox[f].emails)
              /\ u \notin UnseenUids(mailbox[f].emails)
              /\ ~(last'.cmd = "UID STORE"
                     /\ last'.kind \in {"Remove", "Replace"}))
               => u \notin UnseenUids(mailbox'[f].emails)
          /\ (/\ u \in UnseenUids(mailbox[f].emails)
              /\ ~(last'.cmd = "UID STORE"
                     /\ last'.kind \in {"Add", "Replace"}))
               => u \in UnseenUids(mailbox'[f].emails)]_vars

\* the commands the read methods send
ReadCommands ==
  {"STARTTLS", "LOGIN", "LIST", "SELECT", "UID SEARCH", "UID FETCH", "LOGOUT"}

WriteCommands == {"UID STORE", "UID COPY", "EXPUNGE"}

\* the keywords of the commands the running method has sent
SentSet(c) == {c.sent[i] : i \in 1..Len(c.sent)}

\* C12: every method of a read-only client sends only STARTTLS, LOGIN,
\* LIST, SELECT, UID SEARCH, UID FETCH and LOGOUT; a UID STORE, UID COPY or
\* EXPUNGE is sent only by a write method of a read-write client; no step
\* of a read-only client changes the mailbox.
C12_ReadOnlyClientNeverWrites ==
  [][/\ client'.mode = "ReadOnly" =>
          /\ client'.op \in ReadOps \cup {""}
          /\ SentSet(client') \subseteq ReadCommands
          /\ mailbox' = mailbox
     /\ SentSet(client') \cap WriteCommands # {} =>
          client'.mode = "ReadWrite" /\ client'.op \in WriteOps]_vars

\* a read-only client's fetch_unseen has returned the unseen message of an
\* INBOX that also holds a seen one
C12_Witness ==
  /\ client.mode = "ReadOnly"
  /\ client.op = "fetch_unseen"
  /\ client.result = "Ok"
  /\ client.sent = <<"STARTTLS", "LOGIN", "SELECT", "UID SEARCH", "UID FETCH",
                     "LOGOUT">>
  /\ Len(client.emails) = 1
  /\ client.emails[1].uid = 2
  /\ Len(mailbox[1].emails) = 2

\* C13: when move_to_folder(uid, from, to) returns Ok for a message with
\* that UID in `from` and an existing folder `to` other than `from`, and no
\* other client writes, `from` holds no message with that UID afterwards
\* and `to` holds a message with that UID and the same payload; archive is
\* the same with `to` = Archive.  Step by step: the copy puts a clone of the
\* message into `to`, the rest of the method leaves `to` alone, and when
\* the method returns Ok `from` holds no message with the UID.
C13_MoveTakesMessageAlong ==
  [][LET fi == get_folder(mailbox, client.folder)
         ti == get_folder(mailbox, client.to)
         moving == IsMove(client.op) /\ fi # 0 /\ ti # 0 /\ fi # ti
     IN  /\ (moving /\ client.step = "copy" /\ client'.step = "store") =>
              \A i \in 1..Len(mailbox[fi].emails) :
                mailbox[fi].emails[i].uid = client.uid =>
                  \E j \in 1..Len(mailbox'[ti].emails) :
                    /\ mailbox'[ti].emails[j].uid = client.uid
                    /\ mailbox'[ti].emails[j].raw = mailbox[fi].emails[i].raw
         /\ (moving /\ client.step \in {"store", "expunge", "logout"}) =>
              mailbox'[ti] = mailbox[ti]
         /\ (moving /\ client.step = "logout" /\ client'.result = "Ok") =>
              client.uid \notin FolderUids(mailbox'[fi].emails)]_vars

\* the emails differ at most in their seen flags
SameButSeen(a, b) ==
  /\ Len(a) = Len(b)
  /\ \A i \in 1..Len(a) : [a[i] EXCEPT !.seen = FALSE] = [b[i] EXCEPT !.seen = FALSE]

\* C14: when unmark_all_read(folder) returns Ok and no other client writes,
\* no message of the folder has the Seen flag afterwards, no message is
\* added or removed and no deleted flag changes; when the folder had no
\* seen message no STORE is sent.
C14_UnmarkAllReadClearsSeen ==
  [][LET fi == get_folder(mailbox, client.folder) IN
     client.op = "unmark_all_read" =>
       /\ (client.step = "logout" /\ client'.result = "Ok") =>
            \A i \in 1..Len(mailbox'[fi].emails) : ~mailbox'[fi].emails[i].seen
       /\ \A f \in 1..Len(mailbox) :
            IF f = fi THEN SameButSeen(mailbox[f].emails, mailbox'[f].emails)
            ELSE mailbox'[f] = mailbox[f]
       /\ (/\ client.step = "search"
           /\ fi # 0
           /\ \A i \in 1..Len(mailbox[fi].emails) : ~mailbox[fi].emails[i].seen)
            => /\ client'.step = "logout"
               /\ "UID STORE" \notin SentSet(client')]_vars

\* the smaller of two numbers
Min(a, b) == IF a <= b THEN a ELSE b

\* the m largest members of a set of UIDs
Largest(S, m) == {u \in S : Cardinality({v \in S : v > u}) < m}

\* the UIDs of the messages whose payload parse_email accepts
FetchableUids(emails) ==
  {emails[i].uid : i \in {j \in 1..Len(emails) : parse_email_ok(emails[j].raw)}}

EmailUids(emails) == {emails[i].uid : i \in 1..Len(emails)}

\* latest date first
DateDescending(emails) ==
  \A i \in 1..Len(emails), j \in 1..Len(emails) :
    i < j => DateKey(emails[i].date) >= DateKey(emails[j].date)

\* fetch_last_n has returned Ok
LastNDone == client.op = "fetch_last_n" /\ client.result = "Ok"

RangeSearch ==
  /\ last.cmd = "UID SEARCH"
  /\ EndsOk(resp, last.tag)
  /\ Len(last.keys) = 2
  /\ last.keys[1].op = "Since"
  /\ last.keys[2].op = "Before"

Sends(keyword) ==
  /\ Len(client'.sent) = Len(client.sent) + 1
  /\ client'.sent[Len(client'.sent)] = keyword

\* C17: connect sends LOGIN only after STARTTLS was answered OK and the TLS
\* handshake succeeded; when STARTTLS is rejected or the handshake fails,
\* connect returns a Tls error and neither LOGIN nor any other command is
\* sent on that connection.
C17_LoginOnlyOverTls ==
  [][/\ Sends("LOGIN") =>
          /\ client.sent = <<"STARTTLS">>
          /\ client.status = "OK"
          /\ client.stream = "tls"
     /\ (client.step = "starttls" /\ client'.status # "OK") =>
          client'.step = "done" /\ client'.result = "Err(Tls)"
     /\ (client.step = "handshake" /\ client'.stream # "tls") =>
          client'.step = "done" /\ client'.result = "Err(Tls)"
     /\ client'.result = "Err(Tls)" =>
          client'.sent = <<"STARTTLS">> /\ client'.stream = "tcp"]_vars

\* the handshake failed after STARTTLS was answered OK: connect returned
\* the Tls error with STARTTLS the only command sent
C17_Witness ==
  /\ client.result = "Err(Tls)"
  /\ client.status = "OK"
  /\ client.sent = <<"STARTTLS">>
  /\ client.stream = "tcp"

\* this step answers a command line of connection c
Answers(c) == last' # last /\ last'.conn = c /\ last'.cmd # ""

\* C18: before its TLS handshake has succeeded a connection has no command
\* dispatched and the mailbox is not touched for it: the one line it may
\* send is answered with a single tagged line and nothing else changes, a
\* line other than STARTTLS ends the task with at most one BAD line, a
\* failed handshake ends the task, an ended task stays ended, and the
\* command loop is entered only from a successful handshake.
C18_NothingBeforeTheUpgrade ==
  [][\A c \in Conns :
       /\ (~local[c].tls /\ Answers(c)) =>
            /\ pc[c] = "AwaitStartTls"
            /\ mailbox' = mailbox /\ selected' = selected
            /\ Len(resp') = 1
            /\ resp'[1].tag = last'.tag
            /\ \/ /\ last'.cmd = "STARTTLS"
                  /\ resp'[1].kind = "OK"
                  /\ pc'[c] = "Upgrading"
               \/ /\ last'.cmd # "STARTTLS"
                  /\ resp'[1].kind = "BAD"
                  /\ pc'[c] = "Closed"
       /\ (mailbox' # mailbox /\ last'.conn = c) =>
            local[c].tls /\ pc[c] = "Loop"
       /\ (pc[c] = "AwaitStartTls" /\ pc'[c] # "AwaitStartTls"
             /\ ~(Answers(c) /\ last'.cmd = "STARTTLS")) =>
            /\ pc'[c] = "Closed"
            /\ resp' = resp \/ OnlyTagged(resp', last'.tag, "BAD")
       /\ (pc[c] = "Upgrading" /\ pc'[c] # "Upgrading" /\ ~local'[c].tls) =>
            pc'[c] = "Closed"
       /\ (pc'[c] = "Upgrading" /\ pc[c] # "Upgrading") =>
            pc[c] = "AwaitStartTls" /\ Answers(c)
       /\ (pc'[c] = "Loop" /\ pc[c] # "Loop") =>
            pc[c] = "Upgrading" /\ ~local[c].tls /\ local'[c].tls
       /\ pc[c] = "Loop" => local[c].tls
       /\ pc[c] = "Closed" => pc'[c] = "Closed" /\ ~Answers(c)]_vars

\* connection 1 sent LOGIN as its first line and was turned away with the
\* BAD line, while connection 2 went through the upgrade into its loop
C18_Witness ==
  /\ last.conn = 1 /\ last.cmd = "LOGIN"
  /\ OnlyTagged(resp, last.tag, "BAD")
  /\ pc[1] = "Closed" /\ ~local[1].tls
  /\ pc[2] = "Loop" /\ local[2].tls

\* C19: a LOGOUT is answered with the untagged BYE and then the tagged OK,
\* and the task leaves its loop: the mailbox and the other connections are
\* as they were, and from then on no command line of that connection is
\* answered and nothing is done for it.
C19_LogoutEndsTheConnection ==
  [][\A c \in Conns :
       /\ (Answers(c) /\ last'.cmd = "LOGOUT") =>
            /\ resp' = <<Untagged("BYE", 0),
                         Tagged(last'.tag, "OK", "LOGOUT completed")>>
            /\ pc[c] = "Loop" /\ pc'[c] = "Closed"
            /\ mailbox' = mailbox
            /\ \A d \in Conns \ {c} :
                 /\ pc'[d] = pc[d]
                 /\ selected'[d] = selected[d]
                 /\ local'[d] = local[d]
       /\ pc[c] = "Closed" =>
            /\ pc'[c] = "Closed"
            /\ selected'[c] = selected[c] /\ local'[c] = local[c]
            /\ ~(last' # last /\ last'.conn = c)
            /\ ~(mailbox' # mailbox /\ last'.conn = c)]_vars

\* connection 1 has logged out and its BYE and OK are on the wire, while
\* connection 2 is in its loop with INBOX selected
C19_Witness ==
  /\ last.conn = 1 /\ last.cmd = "LOGOUT"
  /\ Len(resp) = 2 /\ resp[1].kind = "BYE" /\ resp[2].kind = "OK"
  /\ pc[1] = "Closed"
  /\ pc[2] = "Loop" /\ selected[2] = Some("INBOX")

\* the task of connection c is at its socket: reading the next command
\* line or writing a response line
AtSocket(c) == pc[c] \in {"Loop", "Write"}

\* this step puts a line of connection c on its socket
WritesLine(c) == pc[c] = "Write" /\ local'[c].lines # local[c].lines

\* C20: no connection task holds the mailbox lock while it is at its
\* socket: a STORE, COPY or EXPUNGE has released the lock before the first
\* line of its response is written and holds it at no write, and whenever
\* a task waits for the lock while all others are at their sockets the
\* lock is free.
C20_NoLockAcrossSocketIO ==
  [][\A c \in Conns :
       /\ AtSocket(c) => lock # c
       /\ WritesLine(c) => lock # c /\ lock' # c
       /\ (pc[c] # "Write" /\ pc'[c] = "Write") => lock' # c
       /\ (pc[c] \in {"LockCheck", "LockMutate"}
             /\ \A d \in Conns \ {c} : AtSocket(d)) => lock = 0]_vars

\* connection 1 has its whole STORE response still to write (a FETCH line
\* and the tagged OK) while connection 2 holds the lock and mutates
C20_Witness ==
  /\ pc[1] = "Write"
  /\ local[1].cmd.cmd = "UID STORE"
  /\ Len(local[1].lines) >= 2
  /\ lock = 2
  /\ pc[2] = "Mutate"

\* the connections inside the loop of a read-and-mutate block
Mutators == {d \in Conns : pc[d] = "Mutating"}

\* the mailboxes that lie entirely before or entirely after every write
\* command under way
Settled ==
  IF Mutators = {} THEN {mailbox}
  ELSE UNION {{local[d].snap, MutatedMailbox(local[d].cmd, local[d].snap)} :
                d \in Mutators}

EndsRejected(lines, tag) ==
  /\ lines # <<>>
  /\ lines[Len(lines)].tag = tag
  /\ lines[Len(lines)].kind \in {"BAD", "NO"}

\* C22: a command of the loop that is answered with a tagged BAD or NO
\* leaves its connection in the command loop and the mailbox, and every
\* other connection, as they were; once the rejection is read the
\* connection is in its loop with the wire free, where every command is
\* taken; and every command answered is one of a connection in its loop.
C22_RejectionKeepsTheSession ==
  [][\A c \in Conns :
       /\ (Answers(c) /\ EndsRejected(resp', last'.tag)) =>
            /\ pc[c] = "Loop" /\ pc'[c] = "Loop"
            /\ mailbox' = mailbox
            /\ \A d \in Conns \ {c} :
                 pc'[d] = pc[d] /\ selected'[d] = selected[d]
       /\ (last.conn = c /\ EndsRejected(resp, last.tag)) =>
            pc'[c] = "Loop" /\ (resp' # resp => Idle')
       /\ Answers(c) => pc[c] = "Loop" /\ local[c].tls]_vars

\* connection 1, with INBOX selected, had its UID COPY to a missing
\* destination turned away with NO and is still in its loop
C22_Witness ==
  /\ last.conn = 1 /\ last.cmd = "UID COPY" /\ last.sel = Some("INBOX")
  /\ EndsRejected(resp, last.tag) /\ resp[1].kind = "NO"
  /\ pc[1] = "Loop"

\* the command words of the supported commands
Supported ==
  {"CAPABILITY", "NOOP", "LOGIN", "LIST", "SELECT", "UID SEARCH",
   "UID FETCH", "UID STORE", "UID COPY", "EXPUNGE", "LOGOUT"}

\* C23: a command line of the loop whose word is not a supported command is
\* answered with a single tagged BAD and the loop goes on, and a line
\* whose word is a supported command is answered by its handler, not with
\* BAD Unknown command.
C23_KeywordsRouted ==
  [][\A c \in Conns :
       Answers(c) =>
         /\ last'.cmd \notin Supported =>
              OnlyTagged(resp', last'.tag, "BAD") /\ pc'[c] = "Loop"
         /\ last'.cmd \in Supported =>
              resp' # <<Tagged(last'.tag, "BAD", "Unknown command")>>]_vars

\* this step answers a UID COPY of a connection with a folder selected
CopySelectedStep == last' # last /\ last'.cmd = "UID COPY" /\ last'.sel.some

\* C24: a UID COPY with a folder selected is answered with a single tagged
\* BAD when the selected folder is not in the mailbox, and otherwise with
\* a single tagged NO carrying [TRYCREATE] when the destination is not in
\* the mailbox; in both cases the mailbox and every selection are as they
\* were.
C24_CopyMissingFolders ==
  [][CopySelectedStep =>
       LET src_exists == get_folder(mailbox, last'.sel.name) # 0
           dest_exists == get_folder(mailbox, last'.name) # 0
       IN  /\ ~src_exists => OnlyTagged(resp', last'.tag, "BAD")
           /\ (src_exists /\ ~dest_exists) =>
                /\ OnlyTagged(resp', last'.tag, "NO")
                /\ resp'[1].text = "[TRYCREATE] Destination folder not found"
           /\ (~src_exists \/ ~dest_exists) =>
                mailbox' = mailbox /\ selected' = selected]_vars

\* a UID COPY from INBOX to a folder that does not exist was answered NO
\* with the TRYCREATE hint
C24_Witness ==
  /\ last.cmd = "UID COPY" /\ last.sel = Some("INBOX") /\ last.name = "NoSuch"
  /\ OnlyTagged(resp, last.tag, "NO")
  /\ Len(mailbox[1].emails) >= 1

\* this step reads a line of connection c in its command loop
LineRead(c) == last' # last /\ last'.conn = c /\ pc[c] = "Loop"

\* the line read in this step is empty
EmptyLineRead == last'.tag = "" /\ last'.cmd = ""

\* the lines are untagged lines followed by one line tagged with tag
OneTaggedLast(lines, tag) ==
  /\ lines # <<>>
  /\ lines[Len(lines)].tag = tag
  /\ \A i \in 1..(Len(lines) - 1) : lines[i].tag = "*"

\* C25: every non-empty line read in the command loop is answered, within
\* the round of the loop that read it and so before the connection's next
\* line is read, with exactly one tagged line, which carries the tag of
\* the line and comes last; an empty line is answered with nothing.
C25_OneTaggedResponsePerLine ==
  [][\A c \in Conns :
       LineRead(c) =>
         IF EmptyLineRead THEN resp' = <<>>
         ELSE OneTaggedLast(resp', last'.tag)]_vars

\* C26: a non-empty line of the command loop that has no command word (a
\* single token) is answered with a single tagged BAD carrying that token
\* as its tag.
C26_UnparsableLineIsBad ==
  [][\A c \in Conns :
       (LineRead(c) /\ last'.cmd = "" /\ last'.tag # "") =>
         OnlyTagged(resp', last'.tag, "BAD")]_vars

\* this step answers a UID SEARCH on a selected folder of the mailbox
SearchStep ==
  last' # last /\ last'.cmd = "UID SEARCH" /\ CmdFolder(mailbox, last') # 0

\* the meaning of a search key for a message: the leaves by the message's
\* flags and date, And, Or and Not as the boolean connectives, and a leaf
\* the evaluator does not know as true
RECURSIVE Satisfies(_, _)
Satisfies(email, key) ==
  CASE key.op = "And" ->
         \A i \in 1..Len(key.args) : Satisfies(email, key.args[i])
    [] key.op = "Or" ->
         Satisfies(email, key.args[1]) \/ Satisfies(email, key.args[2])
    [] key.op = "Not" -> ~Satisfies(email, key.args[1])
    [] key.op = "Seen" -> email.seen
    [] key.op = "Unseen" -> ~email.seen
    [] key.op = "Since" ->
         LET d == parse_email_date(email.raw) IN d.some /\ d.d >= key.d
    [] key.op = "Before" ->
         LET d == parse_email_date(email.raw) IN d.some /\ d.d < key.d
    [] OTHER -> TRUE

\* the positions of the messages of emails that satisfy every key
Matching(emails, keys) ==
  {i \in 1..Len(emails) :
     \A k \in 1..Len(keys) : Satisfies(emails[i], keys[k])}

\* C27: a UID SEARCH on a selected folder writes exactly one untagged
\* SEARCH line and then the tagged OK; the line has one entry for each
\* message that satisfies every top-level key and for no other, in folder
\* order, each entry the message's UID, and no UID is listed twice; with
\* no key every message is listed and with no match the line is empty.
C27_SearchListsExactlyTheMatches ==
  [][SearchStep =>
       LET emails == mailbox[CmdFolder(mailbox, last')].emails
           hits == Matching(emails, last'.keys)
           uids == resp'[1].uids
       IN  /\ Len(resp') = 2
           /\ resp'[1].tag = "*" /\ resp'[1].kind = "SEARCH"
           /\ resp'[2] = Tagged(last'.tag, "OK", "SEARCH completed")
           /\ Len(uids) = Cardinality(hits)
           /\ \A i \in hits :
                uids[Cardinality({j \in hits : j <= i})] = emails[i].uid
           /\ \A a, b \in 1..Len(uids) : a # b => uids[a] # uids[b]
           /\ last'.keys = <<>> => Len(uids) = Len(emails)]_vars

\* uids lists the messages of emails at the positions hits, in folder order
Lists(uids, emails, hits) ==
  /\ Len(uids) = Cardinality(hits)
  /\ \A i \in hits : uids[Cardinality({j \in hits : j <= i})] = emails[i].uid

StoreStep ==
  last' # last /\ last'.cmd = "UID STORE" /\ CmdFolder(mailbox, last') # 0

\* the message after the operation kind with the flag-set flags
Stored(email, kind, flags) ==
  CASE kind = "Add" ->
         [email EXCEPT !.seen = @ \/ "Seen" \in flags,
                       !.deleted = @ \/ "Deleted" \in flags]
    [] kind = "Remove" ->
         [email EXCEPT !.seen = @ /\ "Seen" \notin flags,
                       !.deleted = @ /\ "Deleted" \notin flags]
    [] kind = "Replace" ->
         [email EXCEPT !.seen = "Seen" \in flags,
                       !.deleted = "Deleted" \in flags]

\* the positions of emails whose UID the id-set names
Named(emails, idset) ==
  {i \in 1..Len(emails) : InIdSet(emails[i].uid, idset, MaxOfUids(emails))}

\* C29: a UID STORE on the selected folder F applies its operation to
\* every message of F whose UID is in the id-set and to no other message,
\* changes nothing but the seen and deleted flags of those messages (uid,
\* raw payload, order and number of messages of F, and every other folder
\* stay), and completes OK also when the id-set names UIDs F does not
\* hold.
C29_StoreChangesTheNamedMessages ==
  [][StoreStep =>
       LET fi == CmdFolder(mailbox, last')
           before == mailbox[fi].emails
           after == mailbox'[fi].emails
           named == Named(before, last'.idset)
       IN  /\ Len(after) = Len(before)
           /\ \A i \in 1..Len(before) :
                after[i] = IF i \in named
                           THEN Stored(before[i], last'.kind, last'.flags)
                           ELSE before[i]
           /\ Len(mailbox') = Len(mailbox)
           /\ \A f \in 1..Len(mailbox) :
                /\ mailbox'[f].name = mailbox[f].name
                /\ f # fi => mailbox'[f] = mailbox[f]
           /\ EndsOk(resp', last'.tag)]_vars

\* C30: a UID STORE that is not silent writes, before its tagged OK,
\* exactly one FETCH line for every message it applied the operation to,
\* also when the id-set names a UID twice or in overlapping ranges; the
\* line carries the position of the message, its UID and the flags it has
\* after the operation.  A silent UID STORE writes the tagged OK alone and
\* changes the messages in the same way.
C30_OneFetchLinePerStoredMessage ==
  [][StoreStep =>
       LET fi == CmdFolder(mailbox, last')
           before == mailbox[fi].emails
           after == mailbox'[fi].emails
           named == Named(before, last'.idset)
           n == Len(resp') - 1
       IN  /\ EndsOk(resp', last'.tag)
           /\ \A i \in named :
                after[i] = Stored(before[i], last'.kind, last'.flags)
           /\ last'.silent => n = 0
           /\ ~last'.silent =>
                /\ n = Cardinality(named)
                /\ \A i \in named :
                     \E k \in 1..n :
                       /\ resp'[k].kind = "FETCH"
                       /\ resp'[k].n = i
                       /\ resp'[k].uid = before[i].uid
                       /\ resp'[k].flags = CurrentFlags(after[i])]_vars

\* a SELECT that was answered OK
SelectOkStep ==
  last' # last /\ last'.cmd = "SELECT" /\ EndsOk(resp', last'.tag)

\* C31: the UIDNEXT line of a SELECT answered OK carries 1 for an empty
\* folder and the largest UID of the folder plus one otherwise, a value
\* above every UID of the folder, also when the largest UID is the top
\* value of u32.
C31_UidNextAboveEveryUid ==
  [][SelectOkStep =>
       LET emails == mailbox[get_folder(mailbox, last'.name)].emails IN
       \E k \in 1..Len(resp') :
         /\ resp'[k].kind = "UIDNEXT"
         /\ emails = <<>> => resp'[k].n = 1
         /\ \A i \in 1..Len(emails) : resp'[k].n > emails[i].uid
         /\ emails # <<>> =>
              \E i \in 1..Len(emails) : resp'[k].n = emails[i].uid + 1]_vars

\* a UID FETCH that found its folder
FetchStep ==
  last' # last /\ last'.cmd = "UID FETCH" /\ CmdFolder(mailbox, last') # 0

\* C32: a UID FETCH answers, for every UID of its id-set that the selected
\* folder holds, with a FETCH response whose sequence number is the
\* position of the message of that UID in the folder and whose UID field
\* is the UID; it writes no response for any other UID, nothing but the
\* tagged line when the folder holds none of the UIDs, and it ends with
\* the tagged OK.
C32_FetchAnswersByPosition ==
  [][FetchStep =>
       LET emails == mailbox[CmdFolder(mailbox, last')].emails
           wanted == {u \in FolderUids(emails) :
                        InIdSet(u, last'.idset, MaxOfUids(emails))}
           heads == {k \in 1..Len(resp') : resp'[k].kind = "FETCH"}
       IN  /\ EndsOk(resp', last'.tag)
           /\ \A u \in wanted : \E k \in heads : resp'[k].uid = u
           /\ \A k \in heads :
                /\ resp'[k].uid \in wanted
                /\ resp'[k].n \in 1..Len(emails)
                /\ emails[resp'[k].n].uid = resp'[k].uid
           /\ wanted = {} => Len(resp') = 1]_vars

\* the place of the folder with exactly this name
Place(mb, name) == CHOOSE i \in 1..Len(mb) : mb[i].name = name

\* the spellings of INBOX
InboxSpellings == {"INBOX", "inbox", "Inbox"}

\* C33: a SELECT of INBOX in any spelling is answered OK with the message
\* count of the folder INBOX and selects it, and a UID SEARCH, UID FETCH,
\* UID STORE, UID COPY or EXPUNGE under that selection reads and changes
\* the folder INBOX; a SELECT of a name that differs in case from the name
\* of another folder is answered NO and selects nothing.
C33_InboxInAnyCase ==
  [][/\ (last' # last /\ last'.cmd = "SELECT") =>
          /\ last'.name \in InboxSpellings =>
               /\ EndsOk(resp', last'.tag)
               /\ resp'[2].kind = "EXISTS"
               /\ resp'[2].n = Len(mailbox[Place(mailbox, "INBOX")].emails)
               /\ selected'[last'.conn] = Some(last'.name)
          /\ last'.name = "archive" =>
               /\ OnlyTagged(resp', last'.tag, "NO")
               /\ selected'[last'.conn] = None
     /\ (/\ last' # last
         /\ last'.cmd \in {"UID SEARCH", "UID FETCH", "UID STORE",
                           "UID COPY", "EXPUNGE"}
         /\ last'.sel.some
         /\ last'.sel.name \in InboxSpellings) =>
          LET inbox == Place(mailbox, "INBOX")
              before == mailbox[inbox].emails
              after == mailbox'[inbox].emails
          IN  /\ EndsOk(resp', last'.tag) \/ last'.cmd = "UID COPY"
              /\ last'.cmd = "UID SEARCH" =>
                   SearchUids(resp') = FolderUids(before)
              /\ (last'.cmd = "UID FETCH" /\ 1 \in FolderUids(before)) =>
                   resp'[1].kind = "FETCH" /\ resp'[1].uid = 1
              /\ (last'.cmd = "UID STORE" /\ 1 \in FolderUids(before)) =>
                   \E i \in 1..Len(after) :
                     after[i].uid = 1 /\ after[i].deleted
              /\ last'.cmd = "EXPUNGE" =>
                   after = SelectSeq(before, LAMBDA e : ~e.deleted)
              /\ (last'.cmd = "UID COPY" /\ EndsOk(resp', last'.tag)
                    /\ last'.name = "Archive") =>
                   Len(mailbox'[Place(mailbox, "Archive")].emails)
                     = Len(mailbox[Place(mailbox, "Archive")].emails)
                         + Cardinality({i \in 1..Len(before) :
                                          before[i].uid = 1})]_vars

\* a connection that selected INBOX as "inbox" expunged a message of it
C33_Witness ==
  /\ last.cmd = "EXPUNGE" /\ last.sel = Some("inbox")
  /\ resp # <<>> /\ resp[1].kind = "EXPUNGE"
  /\ EndsOk(resp, last.tag)

\* the commands that only read
ReadOnlyCommands ==
  {"CAPABILITY", "NOOP", "LOGIN", "LIST", "SELECT", "UID SEARCH",
   "UID FETCH", "LOGOUT"}

\* C34: CAPABILITY, NOOP, LOGIN, LIST, SELECT, UID SEARCH, UID FETCH and
\* LOGOUT leave every folder as it was, of the same name and with the same
\* messages in the same order (a fetched message keeps its seen flag);
\* a step that changes the mailbox is a UID STORE, a UID COPY or an
\* EXPUNGE.
C34_ReadCommandsLeaveTheMailbox ==
  [][/\ (last' # last /\ last'.cmd \in ReadOnlyCommands) =>
          /\ Len(mailbox') = Len(mailbox)
          /\ \A f \in 1..Len(mailbox) :
               /\ mailbox'[f].name = mailbox[f].name
               /\ mailbox'[f].emails = mailbox[f].emails
     /\ mailbox' # mailbox =>
          /\ last' # last
          /\ last'.cmd \in {"UID STORE", "UID COPY", "EXPUNGE"}]_vars

\* an unseen message was fetched and is unseen still
C34_Witness ==
  /\ last.cmd = "UID FETCH" /\ CmdFolder(mailbox, last) # 0
  /\ resp # <<>> /\ resp[1].kind = "FETCH"
  /\ LET emails == mailbox[CmdFolder(mailbox, last)].emails IN
     /\ resp[1].n \in 1..Len(emails)
     /\ emails[resp[1].n].uid = resp[1].uid
     /\ ~emails[resp[1].n].seen

\* a move is under way between two folders the mailbox may hold
Moving == IsMove(client.op) /\ client.step # "idle"

\* the folder holds a message of this UID and payload
Holds(mb, fi, uid, raw) ==
  /\ fi # 0
  /\ \E i \in 1..Len(mb[fi].emails) :
       mb[fi].emails[i].uid = uid /\ mb[fi].emails[i].raw = raw

\* how many messages of this UID the folder holds
CountUid(emails, uid) ==
  Cardinality({i \in 1..Len(emails) : emails[i].uid = uid})

\* C35: no step of move_to_folder loses the message: a message with the
\* moved UID and a payload that the source or the destination folder
\* holds is, after every step of the method (also the step at which a
\* command fails or the connection breaks), held by the source or by the
\* destination; and a step of the method takes a message of the moved UID
\* out of the source only when the destination holds it already.
C35_MoveNeverLosesTheMessage ==
  [][(Moving /\ client' # client) =>
       LET fi == get_folder(mailbox, client.folder)
           ti == get_folder(mailbox, client.to)
       IN  /\ \A raw \in AllRaws :
                (Holds(mailbox, fi, client.uid, raw)
                   \/ Holds(mailbox, ti, client.uid, raw))
                  => (Holds(mailbox', fi, client.uid, raw)
                        \/ Holds(mailbox', ti, client.uid, raw))
           /\ (/\ fi # 0
               /\ CountUid(mailbox'[fi].emails, client.uid)
                    < CountUid(mailbox[fi].emails, client.uid)) =>
                /\ "UID COPY" \in SentSet(client)
                /\ \A raw \in AllRaws :
                     Holds(mailbox, fi, client.uid, raw)
                       => Holds(mailbox, ti, client.uid, raw)]_vars

\* the folder holds a message of this UID and payload that is not marked
\* deleted
HoldsLive(mb, fi, uid, raw) ==
  /\ fi # 0
  /\ \E i \in 1..Len(mb[fi].emails) :
       /\ mb[fi].emails[i].uid = uid
       /\ mb[fi].emails[i].raw = raw
       /\ ~mb[fi].emails[i].deleted

\* the place of the first keyword in the commands sent, 0 when not sent
SentAt(c, keyword) ==
  IF keyword \in SentSet(c)
  THEN CHOOSE i \in 1..Len(c.sent) :
         c.sent[i] = keyword /\ \A j \in 1..(i - 1) : c.sent[j] # keyword
  ELSE 0

\* C36: move_to_folder sends the UID COPY before the UID STORE and changes
\* nothing before the copy, so the copy of a message that was not marked
\* deleted arrives in the destination not marked deleted; it stays so
\* through the rest of the method, and an EXPUNGE of the destination after
\* any of these steps leaves it there.
C36_CopyComesBeforeTheDeletedMark ==
  [][(Moving /\ client' # client) =>
       LET fi == get_folder(mailbox, client.folder)
           ti == get_folder(mailbox, client.to)
           expunged == ExpungeMailbox(mailbox', Some(client.to))
       IN  /\ "UID STORE" \in SentSet(client') =>
                /\ "UID COPY" \in SentSet(client')
                /\ SentAt(client', "UID COPY") < SentAt(client', "UID STORE")
           /\ "UID COPY" \notin SentSet(client') => mailbox' = mailbox
           /\ (client.step = "copy" /\ client'.step = "store") =>
                \A raw \in AllRaws :
                  HoldsLive(mailbox, fi, client.uid, raw) =>
                    /\ HoldsLive(mailbox', ti, client.uid, raw)
                    /\ HoldsLive(expunged, ti, client.uid, raw)
           /\ "UID COPY" \in SentSet(client) =>
                \A raw \in AllRaws :
                  HoldsLive(mailbox, ti, client.uid, raw) =>
                    /\ HoldsLive(mailbox', ti, client.uid, raw)
                    /\ HoldsLive(expunged, ti, client.uid, raw)]_vars

\* UID 2 was copied from INBOX to Archive and then marked deleted in INBOX:
\* the copy in Archive is not marked
C36_Witness ==
  /\ client.op = "move_to_folder" /\ client.step = "expunge"
  /\ client.folder = "INBOX" /\ client.to = "Archive" /\ client.uid = 2
  /\ client.sent = <<"STARTTLS", "LOGIN", "SELECT", "UID COPY", "UID STORE">>
  /\ HoldsLive(mailbox, 2, 2, RawOfUid(2))
  /\ Holds(mailbox, 1, 2, RawOfUid(2))
  /\ ~HoldsLive(mailbox, 1, 2, RawOfUid(2))

\* the messages of the folder other than those of this UID, in order
Others(emails, uid) == SelectSeq(emails, LAMBDA e : e.uid # uid)

\* C37: no step of move_to_folder(uid, from, to) removes or changes a
\* message of `from` that has another UID: the messages of `from` with
\* another UID, those already marked deleted included, are the same, in
\* the same order, after every step of the method.
C37_MoveLeavesTheOtherMessages ==
  [][(Moving /\ client' # client) =>
       LET fi == get_folder(mailbox, client.folder) IN
       fi # 0 =>
         Others(mailbox'[fi].emails, client.uid)
           = Others(mailbox[fi].emails, client.uid)]_vars

\* the folder names of the mailbox, in order
FolderNames(mb) == [f \in 1..Len(mb) |-> mb[f].name]

\* the folders the existence check of the handler of c found are there
CheckedFoldersThere(c, mb) ==
  /\ get_folder(mb, local[c].cmd.sel.name) # 0
  /\ local[c].cmd.cmd = "UID COPY" => get_folder(mb, local[c].cmd.name) # 0

\* C38: no step adds, removes or renames a folder, and a handler of UID
\* STORE, UID COPY or EXPUNGE whose existence check has passed finds its
\* folders again when it takes the lock for the mutation (the unwrap of
\* the second lookup does not fail), whatever the other connections did in
\* between.
C38_FoldersAreFixed ==
  [][/\ FolderNames(mailbox') = FolderNames(mailbox)
     /\ \A c \in Conns :
          pc[c] \in {"LockMutate", "Mutate"} =>
            /\ local[c].exists
            /\ CheckedFoldersThere(c, mailbox)
            /\ CheckedFoldersThere(c, mailbox')]_vars

\* between the existence check of connection 1 and its mutation, connection
\* 2 holds the lock for a mutation of its own
C38_Witness ==
  /\ pc[1] = "LockMutate" /\ local[1].exists
  /\ pc[2] = "Mutate" /\ lock = 2
  /\ local[1].cmd.cmd = "EXPUNGE" /\ local[2].cmd.cmd = "UID COPY"

\* the UIDs of the FETCH lines of a response
FetchedUids(lines) ==
  {lines[k].uid : k \in {j \in 1..Len(lines) : lines[j].kind = "FETCH"}}

\* C39: an id-set names the same messages to UID FETCH, UID COPY and UID
\* STORE: the UIDs fetched, the UIDs of the messages copied into another
\* folder and the UIDs of the messages stored are the UIDs of the selected
\* folder that lie in the id-set, whether it lists single UIDs, a range
\* a:b or a range that ends in `*`.
C39_IdSetMeansTheSameEverywhere ==
  [][(/\ last' # last
      /\ last'.cmd \in {"UID FETCH", "UID COPY", "UID STORE"}
      /\ CmdFolder(mailbox, last') # 0
      /\ EndsOk(resp', last'.tag)) =>
       LET fi == CmdFolder(mailbox, last')
           emails == mailbox[fi].emails
           named == {u \in FolderUids(emails) :
                       InIdSet(u, last'.idset, MaxOfUids(emails))}
           ti == get_folder(mailbox, last'.name)
       IN  /\ last'.cmd # "UID COPY" => FetchedUids(resp') = named
           /\ (last'.cmd = "UID COPY" /\ ti # fi) =>
                FolderUids(SubSeq(mailbox'[ti].emails,
                                  Len(mailbox[ti].emails) + 1,
                                  Len(mailbox'[ti].emails))) = named]_vars

\* C40: the selected folder belongs to one connection: it is none when the
\* connection's command loop starts, it changes only in the step that
\* answers a SELECT of that same connection, and no command of another
\* connection (SELECT, STORE, COPY, EXPUNGE or LOGOUT) changes it.
C40_SelectedFolderIsPerConnection ==
  [][\A c \in Conns :
       /\ (pc[c] # "Loop" /\ pc'[c] = "Loop") => selected'[c] = None
       /\ selected'[c] # selected[c] =>
            /\ pc[c] = "Loop"
            /\ Answers(c) /\ last'.cmd = "SELECT"
       /\ \A d \in Conns \ {c} :
            (Answers(d) /\ last'.cmd \in {"SELECT", "UID STORE", "UID COPY",
                                          "EXPUNGE", "LOGOUT"}) =>
              selected'[c] = selected[c]]_vars

\* connection 2 has just selected Archive, which holds a copied message,
\* and connection 1 still has INBOX selected
C40_Witness ==
  /\ last.conn = 2 /\ last.cmd = "SELECT"
  /\ selected[2] = Some("Archive")
  /\ selected[1] = Some("INBOX")
  /\ pc[1] = "Loop" /\ pc[2] = "Loop"
  /\ Len(mailbox[2].emails) > 0
====
